---- MODULE Spec2Model ----
(***************************************************************************)
(* A model of the chart state engine (SpectralSequenceChart / ChartData)   *)
(* and of the interaction modes of InteractiveChartAgent.                  *)
(*                                                                         *)
(* Objects are referred to by their position in the list that owns them:   *)
(* a class reference is a 1-based position in `classes`, an edge reference *)
(* a 1-based position in `edges`.  The `id` fields the code assigns are    *)
(* kept as separate, 0-based record fields.                                *)
(***************************************************************************)
EXTENDS Integers, Sequences, FiniteSets, TLC

INFINITY == 65535

\* ------------------------------------------------------------------ bounds
NumTasks == 2
MaxCalls == 3
MaxElements == 2
MaxClasses == 2
MaxEdges == 2
MaxEvents == 4

Tasks == 1..NumTasks
NoTask == 0

\* Python's None for a reference, and an attribute that was never assigned
None == 0
Unset == -1

\* inputs of the chart operations
PageRangeInputs == {<<1, 1>>, <<3, 3>>, <<3, INFINITY>>, <<2, INFINITY>>}
PageInputs == {3}
Bidegrees == {<<0, 0>>, <<1, 2>>}
RangeInputs == {<<0, 20>>}
ElementInputs == {<<"element", i>> : i \in 0..(MaxElements - 1)}

VARIABLES
    page_list,              \* ChartData.page_list
    page_list_lock,         \* holder of ChartData._page_list_lock, or NoTask
    nodes,                  \* ChartData.nodes (the idx of each node)
    classes,                \* ChartData.classes
    classes_by_bidegree,    \* ChartData._classes_by_bidegree
    edges,                  \* ChartData.edges
    updated_elements,       \* ChartData._updated_elements
    updated_elements_lock,  \* holder of ChartData._updated_elements_lock
    ranges,                 \* x_range, y_range, initial_x_range, initial_y_range
    out,                    \* the outbound messages, in the order emitted
    task,                   \* the callers of the chart operations
    calls,                  \* number of calls made so far
    unflushed,              \* history: per element, the queue_update calls
                            \* made since it was last broadcast
    mode,                          \* InteractiveChartAgent.mode
    interact_source,               \* InteractiveChartAgent._interact_source
    source_mode,                   \* history: the mode whose click handler
                                   \* recorded _interact_source
    differential_source,           \* InteractiveChartAgent._differential_source
    extension_source,              \* InteractiveChartAgent._extension_source
    extension_prev_color_default,  \* ..._extension_prev_color_default
    extension,                     \* InteractiveChartAgent._extension
    response_event,                \* InteractiveChartAgent.response_event, and
                                   \* history: the interact.results so far
    nudge_class,                   \* InteractiveChartAgent._nudge_class
    errors,                        \* the exceptions raised so far, in order
    envelope,                      \* the inbound Envelope being dispatched
    events                         \* number of inbound messages so far

chartVars == <<page_list, page_list_lock, nodes, classes, classes_by_bidegree,
               edges, updated_elements, updated_elements_lock, ranges>>
agentVars == <<mode, interact_source, source_mode, differential_source, extension_source,
               extension_prev_color_default, extension, response_event,
               nudge_class, errors, envelope, events>>
vars == <<chartVars, out, task, calls, unflushed, agentVars>>

\* ---------------------------------------------------------------- helpers
RECURSIVE SeqCount(_, _)
SeqCount(s, v) ==
    IF s = <<>> THEN 0
    ELSE (IF Head(s) = v THEN 1 ELSE 0) + SeqCount(Tail(s), v)

InSeq(s, v) == \E i \in 1..Len(s) : s[i] = v

InsertAt(s, i, v) == SubSeq(s, 1, i) \o <<v>> \o SubSeq(s, i + 1, Len(s))

NoMsg == [cmd |-> "none"]

\* ------------------------------------------------- add_page_range_a pieces
\* lines 107-112: the index of the first entry whose lower bound exceeds the
\* new range's lower bound, else len(page_list); 0-based as in the code.
FindIdxAppend(pl, page_range) == Len(pl)

FindIdx(pl, page_range) ==
    IF \E i \in 1..Len(pl) : pl[i][1] > page_range[1]
    THEN (CHOOSE i \in 1..Len(pl) :
            /\ pl[i][1] > page_range[1]
            /\ \A j \in 1..(i - 1) : ~(pl[j][1] > page_range[1])) - 1
    ELSE Len(pl)

\* line 105: the re-check under the lock
RecheckNever(pl, page_range) == FALSE

Recheck(pl, page_range) == InSeq(pl, page_range)

MsgInsertPageRange(page_range, idx) ==
    [cmd |-> "chart.insert_page_range", page_range |-> page_range, idx |-> idx]

\* -------------------------------------------------------------- the tasks
IdleTask ==
    [pc |-> "idle", op |-> "none", after |-> "none", msg |-> NoMsg,
     sent |-> <<>>, page_range |-> <<>>, inserted |-> FALSE, idx |-> 0,
     auto |-> FALSE, page |-> 0, source |-> 0, target |-> 0, xy |-> <<>>,
     snapshot |-> {}, n_queued |-> 0, edge |-> 0, color |-> FALSE,
     rechecked |-> FALSE, mode |-> "none", c |-> None, prompt |-> "none",
     asked |-> 0, result_n |-> 0, answer |-> "none", prompts |-> <<>>, k |-> 0]

\* a call starts: the record of the previous call is dropped
NewCall(op) == [IdleTask EXCEPT !.op = op, !.pc = "running"]

\* a call returns: the record keeps what the call did
Returned(tk) == [tk EXCEPT !.pc = "idle", !.msg = NoMsg, !.after = "none"]

\* ------------------------------------------------- dispatch of an Envelope
\* the @handle_inbound_messages methods of InteractiveChartAgent in the order
\* they are registered: lines 24-25, 72-73, 81-82, 92-93
InboundHandlers ==
    <<"handle__click__a", "handle__interact__mode__set__a",
      "handle__interact__mode__a", "handle__interact__result__a">>

\* the Command a handler is declared for, read from its name as line 85
\* builds a handler's name from a Command: handle__<segments joined by __>__a
HandlerCommand(h) ==
    IF h = "handle__click__a" THEN <<"click">>
    ELSE IF h = "handle__interact__mode__set__a" THEN <<"interact", "mode", "set">>
    ELSE IF h = "handle__interact__mode__a" THEN <<"interact", "mode">>
    ELSE <<"interact", "result">>

\* a subscription or declared Command S matches a Command C iff S is a
\* prefix of C
Matches(S, C) == Len(S) <= Len(C) /\ SubSeq(C, 1, Len(S)) = S

\* lines 26, 74, 83, 94: the handlers whose first statement is
\* envelope.mark_used()
MarksUsedExceptClick(h) ==
    h \in {"handle__interact__mode__set__a", "handle__interact__mode__a",
           "handle__interact__result__a"}

MarksUsed(h) ==
    h \in {"handle__click__a", "handle__interact__mode__set__a",
           "handle__interact__mode__a", "handle__interact__result__a"}

\* no Envelope is being dispatched: the handler was called directly
NoEnvelope == [cmd |-> <<>>, used |-> FALSE, marked_by |-> <<>>, next |-> 0]

\* the dispatch round has come to the handler at position env.next
InFlight(env) == env.next \in 1..Len(InboundHandlers)

\* Envelope.mark_used, called by h
MarkUsed(env, h) == [env EXCEPT !.used = TRUE, !.marked_by = Append(@, h)]

\* the dispatch round invoked h on the Envelope and goes on to the handlers
\* registered after it
Invoked(env, h) ==
    IF ~InFlight(env) THEN env
    ELSE LET e == IF MarksUsed(h) THEN MarkUsed(env, h) ELSE env
         IN [e EXCEPT !.next = @ + 1]

\* Callers have no identity of their own: a new call is made by the first
\* caller that is not inside a call.
FreeTask(t) ==
    /\ task[t].pc = "idle"
    /\ \A u \in Tasks : u < t => task[u].pc # "idle"

Idle(t) == FreeTask(t) /\ calls < MaxCalls

\* `await self.broadcast_a(msg)`: the caller is suspended until the message
\* has been handed on; `after` names where the code continues.
Await(tk, msg, after) == [tk EXCEPT !.pc = "broadcast", !.msg = msg, !.after = after]

Init ==
    /\ page_list = <<<<2, INFINITY>>, <<INFINITY, INFINITY>>>>
    /\ page_list_lock = NoTask
    /\ nodes = <<0>>
    /\ classes = <<>>
    /\ classes_by_bidegree = [b \in {} |-> <<>>]
    /\ edges = <<>>
    /\ updated_elements = {}
    /\ updated_elements_lock = NoTask
    /\ ranges = [initial_x_range |-> <<0, 10>>, initial_y_range |-> <<0, 10>>,
                 x_range |-> <<>>, y_range |-> <<>>]
    /\ out = <<>>
    /\ task = [t \in Tasks |-> IdleTask]
    /\ calls = 0
    /\ unflushed = [e \in {} |-> 0]
    /\ mode = "NoMode"
    /\ interact_source = None
    /\ source_mode = "none"
    /\ differential_source = None
    /\ extension_source = None
    /\ extension_prev_color_default = "black"
    /\ extension = Unset
    /\ response_event = [is_set |-> FALSE, result |-> "unset", log |-> <<>>]
    /\ nudge_class = Unset
    /\ errors = <<>>
    /\ envelope = NoEnvelope
    /\ events = 0

\* ------------------------------------------------------- add_page_range_a
\* the end of add_page_range_a: add_differential_a goes on to update_a (line 170)
AfterPageRangeSkipUpdate(tk) ==
    IF tk.op = "add_differential"
    THEN [tk EXCEPT !.pc = "diff_edge"]
    ELSE Returned(tk)

AfterPageRange(tk) ==
    IF tk.op = "add_differential"
    THEN [tk EXCEPT !.pc = "upd_lock"]
    ELSE Returned(tk)

\* lines 102-103: the check outside the lock
EnterAddPageRange(tk, page_range) ==
    IF InSeq(page_list, page_range)
    THEN AfterPageRange([tk EXCEPT !.page_range = page_range])
    ELSE [tk EXCEPT !.page_range = page_range, !.pc = "apr_lock"]

CallAddPageRange(t, page_range) ==
    /\ Idle(t)
    /\ task' = [task EXCEPT ![t] = EnterAddPageRange(NewCall("add_page_range"), page_range)]
    /\ calls' = calls + 1
    /\ UNCHANGED <<chartVars, out, unflushed, agentVars>>

\* lines 104-113: acquire the lock, re-check, find the index, insert
PageRangeLock(t) ==
    /\ task[t].pc = "apr_lock"
    /\ page_list_lock = NoTask
    /\ LET tk == task[t]
           idx == FindIdx(page_list, tk.page_range)
       IN IF Recheck(page_list, tk.page_range)
          THEN /\ task' = [task EXCEPT ![t] =
                    AfterPageRange([tk EXCEPT !.rechecked = TRUE])]
               /\ UNCHANGED <<page_list, page_list_lock>>
          ELSE /\ page_list' = InsertAt(page_list, idx, tk.page_range)
               /\ page_list_lock' = t
               /\ task' = [task EXCEPT ![t] =
                    Await([tk EXCEPT !.inserted = TRUE, !.idx = idx],
                          MsgInsertPageRange(tk.page_range, idx), "apr_release")]
    /\ UNCHANGED <<nodes, classes, classes_by_bidegree, edges, updated_elements,
                   updated_elements_lock, ranges, out, calls, unflushed, agentVars>>

\* leaving the `with` block of add_page_range_a (after line 114)
PageRangeRelease(t) ==
    /\ task[t].pc = "apr_release"
    /\ page_list_lock' = NoTask
    /\ task' = [task EXCEPT ![t] = AfterPageRange(task[t])]
    /\ UNCHANGED <<page_list, nodes, classes, classes_by_bidegree, edges,
                   updated_elements, updated_elements_lock, ranges, out, calls,
                   unflushed, agentVars>>

\* --------------------------------------------- add_element_to_update, update_a
\* `with self._updated_elements_lock:` of add_element_to_update
QueueLockFreeAlways(lock) == TRUE

QueueLockFree(lock) == lock = NoTask

\* history of the queue_update calls: one more call for e
Queued(b, e) ==
    [x \in DOMAIN b \cup {e} |->
        (IF x \in DOMAIN b THEN b[x] ELSE 0) + (IF x = e THEN 1 ELSE 0)]

\* history of the queue_update calls: the elements of a batch were broadcast
Flushed(b, batch) == [x \in DOMAIN b \ batch |-> b[x]]

RECURSIVE BagSize(_)
BagSize(b) ==
    IF DOMAIN b = {} THEN 0
    ELSE LET x == CHOOSE y \in DOMAIN b : TRUE
         IN b[x] + BagSize([y \in DOMAIN b \ {x} |-> b[y]])

\* add_element_to_update: lock, add to the set, unlock
CallQueueUpdate(t, e) ==
    /\ Idle(t)
    /\ QueueLockFree(updated_elements_lock)
    /\ updated_elements' = updated_elements \cup {e}
    /\ unflushed' = Queued(unflushed, e)
    /\ task' = [task EXCEPT ![t] = Returned(NewCall("queue_update"))]
    /\ calls' = calls + 1
    /\ UNCHANGED <<page_list, page_list_lock, nodes, classes, classes_by_bidegree,
                   edges, updated_elements_lock, ranges, out, agentVars>>

MsgClassUpdate(to_update) == [cmd |-> "chart.class.update", to_update |-> to_update]

CallUpdate(t) ==
    /\ Idle(t)
    /\ task' = [task EXCEPT ![t] = [NewCall("update") EXCEPT !.pc = "upd_lock"]]
    /\ calls' = calls + 1
    /\ UNCHANGED <<chartVars, out, unflushed, agentVars>>

\* lines 133-136: acquire the lock, build list(self.data._updated_elements)
UpdateLock(t) ==
    /\ task[t].pc = "upd_lock"
    /\ updated_elements_lock = NoTask
    /\ updated_elements_lock' = t
    /\ task' = [task EXCEPT ![t] =
          Await([task[t] EXCEPT !.snapshot = updated_elements,
                                !.n_queued = BagSize(unflushed)],
                MsgClassUpdate(updated_elements), "upd_clear")]
    /\ UNCHANGED <<page_list, page_list_lock, nodes, classes, classes_by_bidegree,
                   edges, updated_elements, ranges, out, calls, unflushed, agentVars>>

\* the end of update_a: add_differential_a goes on to build the edge (line 171)
MsgAdjustBend == [cmd |-> "interact.mode.extension.adjust_bend"]

AfterUpdate(tk) ==
    IF tk.op = "add_differential"
    THEN [tk EXCEPT !.pc = "diff_edge"]
    ELSE IF tk.op = "click" /\ tk.mode = "AddExtensionMode" /\ tk.prompt = "extension"
         THEN Await(tk, MsgAdjustBend, "return")
         ELSE Returned(tk)

\* line 137 and leaving the `with` block
UpdateClear(t) ==
    /\ task[t].pc = "upd_clear"
    /\ updated_elements' = {}
    /\ updated_elements_lock' = NoTask
    /\ task' = [task EXCEPT ![t] = AfterUpdate(task[t])]
    /\ UNCHANGED <<page_list, page_list_lock, nodes, classes, classes_by_bidegree,
                   edges, ranges, out, calls, unflushed, agentVars>>

\* ------------------------------------------------------------- broadcast_a
\* interactive_chart.py line 40: `await self.response_event.wait()` goes on at
\* once when the event is set and otherwise waits for the next set()
Resume(tk) ==
    LET r == [tk EXCEPT !.pc = tk.after, !.msg = NoMsg, !.after = "none",
                        !.sent = Append(tk.sent, Len(out) + 1)]
    IN IF tk.after = "return" THEN Returned(r)
       ELSE IF tk.after = "prompt_wait" /\ response_event.is_set
            THEN [r EXCEPT !.pc = "prompt_woken"]
            ELSE r

\* broadcast_a: the message is handed outward and the caller resumes
Broadcast(t) ==
    /\ task[t].pc = "broadcast"
    /\ out' = Append(out, task[t].msg)
    /\ unflushed' = IF task[t].msg.cmd = "chart.class.update"
                    THEN Flushed(unflushed, task[t].msg.to_update)
                    ELSE unflushed
    /\ task' = [task EXCEPT ![t] = Resume(task[t])]
    /\ UNCHANGED <<chartVars, calls, agentVars>>

\* ---------------------------------------------------------------- add_node_a
MsgNodeAdd(idx) == [cmd |-> "chart.node.add", node |-> idx]

CallAddNode(t) ==
    /\ Idle(t)
    /\ nodes' = Append(nodes, Len(nodes))
    /\ task' = [task EXCEPT ![t] =
          Await(NewCall("add_node"), MsgNodeAdd(Len(nodes)), "return")]
    /\ calls' = calls + 1
    /\ UNCHANGED <<page_list, page_list_lock, classes, classes_by_bidegree, edges,
                   updated_elements, updated_elements_lock, ranges, out, unflushed, agentVars>>

\* --------------------------------------------------------------- add_class_a
\* line 122: c.id = len(self.data.classes)
ClassIdOneBased(cls) == Len(cls) + 1

ClassId(cls) == Len(cls)

\* lines 119, 122: the new class
NewClass(cls, x, y) ==
    [id |-> ClassId(cls), x |-> x, y |-> y, edges |-> <<>>, pages |-> {},
     name |-> "", color |-> "unset", x_nudge |-> 0, y_nudge |-> 0]

\* line 124: pos = (c.x, c.y)
Pos(c) == <<c.x, c.y>>

\* lines 183-184: get_classes_in_bidegree
InBidegree(by, pos) == IF pos \in DOMAIN by THEN by[pos] ELSE <<>>

\* lines 125-127
BidegreeAppend(by, pos, ref) ==
    IF pos \in DOMAIN by
    THEN [by EXCEPT ![pos] = Append(@, ref)]
    ELSE [b \in DOMAIN by \cup {pos} |-> IF b = pos THEN <<ref>> ELSE by[b]]

MsgClassAdd(c) == [cmd |-> "chart.class.add", id |-> c.id, x |-> c.x, y |-> c.y]

\* lines 122-129
AppendClass(t, tk, x, y) ==
    LET c == NewClass(classes, x, y)
    IN /\ classes' = Append(classes, c)
       /\ classes_by_bidegree' = BidegreeAppend(classes_by_bidegree, Pos(c), Len(classes) + 1)
       /\ task' = [task EXCEPT ![t] = Await(tk, MsgClassAdd(c), "return")]

\* add_class_a without a color: no suspension before the class is appended
CallAddClass(t, x, y) ==
    /\ Idle(t)
    /\ Len(classes) < MaxClasses
    /\ AppendClass(t, [NewCall("add_class") EXCEPT !.xy = <<x, y>>], x, y)
    /\ calls' = calls + 1
    /\ UNCHANGED <<page_list, page_list_lock, nodes, edges, updated_elements,
                   updated_elements_lock, ranges, out, unflushed, agentVars>>

\* add_class_a with a color: lines 120-121 await c.set_field_a first
CallAddClassColor(t, x, y) ==
    /\ Idle(t)
    /\ Len(classes) + Cardinality({u \in Tasks : task[u].pc = "cls_append"}) < MaxClasses
    /\ task' = [task EXCEPT ![t] =
          [NewCall("add_class") EXCEPT !.xy = <<x, y>>, !.color = TRUE,
                                       !.pc = "cls_append"]]
    /\ calls' = calls + 1
    /\ UNCHANGED <<chartVars, out, unflushed, agentVars>>

ClassAppend(t) ==
    /\ task[t].pc = "cls_append"
    /\ AppendClass(t, task[t], task[t].xy[1], task[t].xy[2])
    /\ UNCHANGED <<page_list, page_list_lock, nodes, edges, updated_elements,
                   updated_elements_lock, ranges, out, calls, unflushed, agentVars>>

\* ---------------------------------------------------------------- add_edge_a
\* line 145: e.id = len(self.data.edges)
EdgeId(es) == Len(es)

NoPage == <<>>

NewEdge(es, type, source, target, page) ==
    [id |-> EdgeId(es), type |-> type, source |-> source, target |-> target,
     page |-> page, color |-> "unset", bend |-> 0]

\* lines 149-150: source._edges.append(e); target._edges.append(e)
IncidentSourceOnly(cls, source, target, ref) ==
    [cls EXCEPT ![source].edges = Append(@, ref)]

Incident(cls, source, target, ref) ==
    [i \in 1..Len(cls) |->
        [cls[i] EXCEPT !.edges =
            @ \o (IF i = source THEN <<ref>> ELSE <<>>)
              \o (IF i = target THEN <<ref>> ELSE <<>>)]]

\* lines 151-157
MsgEdgeAdd(cls, e) ==
    [cmd |-> "chart.edge.add", type |-> e.type, id |-> e.id,
     source |-> cls[e.source].id, target |-> cls[e.target].id, page |-> e.page]

\* lines 145-157
AddEdge(t, tk, type, source, target, page) ==
    LET e == NewEdge(edges, type, source, target, page)
    IN /\ edges' = Append(edges, e)
       /\ classes' = Incident(classes, source, target, Len(edges) + 1)
       /\ task' = [task EXCEPT ![t] =
             Await([tk EXCEPT !.edge = Len(edges) + 1], MsgEdgeAdd(classes, e), "return")]

ClassRefs == 1..Len(classes)

CallAddStructline(t, source, target) ==
    /\ Idle(t)
    /\ Len(edges) < MaxEdges
    /\ AddEdge(t, [NewCall("add_structline") EXCEPT !.source = source, !.target = target],
               "structline", source, target, NoPage)
    /\ calls' = calls + 1
    /\ UNCHANGED <<page_list, page_list_lock, nodes, classes_by_bidegree,
                   updated_elements, updated_elements_lock, ranges, out, unflushed, agentVars>>

CallAddExtension(t, source, target) ==
    /\ Idle(t)
    /\ Len(edges) < MaxEdges
    /\ AddEdge(t, [NewCall("add_extension") EXCEPT !.source = source, !.target = target],
               "extension", source, target, NoPage)
    /\ calls' = calls + 1
    /\ UNCHANGED <<page_list, page_list_lock, nodes, classes_by_bidegree,
                   updated_elements, updated_elements_lock, ranges, out, unflushed, agentVars>>

\* -------------------------------------------------------- add_differential_a
\* lines 167-168: source.add_page(page); target.add_page(page)
AddPage(cls, source, target, page) ==
    [i \in 1..Len(cls) |->
        IF i \in {source, target}
        THEN [cls[i] EXCEPT !.pages = @ \cup {page}]
        ELSE cls[i]]

\* lines 166-170: with auto the page range and the flush come first
EnterDifferentialEdgeFirst(tk, auto, page) == [tk EXCEPT !.pc = "diff_edge"]

EnterDifferential(tk, auto, page) ==
    IF auto
    THEN EnterAddPageRange(tk, <<page, page>>)
    ELSE [tk EXCEPT !.pc = "diff_edge"]

CallAddDifferential(t, page, source, target, auto) ==
    /\ Idle(t)
    /\ Len(edges) + Cardinality({u \in Tasks : task[u].op = "add_differential"
                                               /\ task[u].edge = 0}) < MaxEdges
    /\ classes' = IF auto THEN AddPage(classes, source, target, page) ELSE classes
    /\ task' = [task EXCEPT ![t] =
          EnterDifferential([NewCall("add_differential") EXCEPT
                                !.auto = auto, !.page = page,
                                !.source = source, !.target = target],
                            auto, page)]
    /\ calls' = calls + 1
    /\ UNCHANGED <<page_list, page_list_lock, nodes, classes_by_bidegree, edges,
                   updated_elements, updated_elements_lock, ranges, out, unflushed, agentVars>>

\* lines 171-172
DifferentialEdge(t) ==
    /\ task[t].pc = "diff_edge"
    /\ AddEdge(t, task[t], "differential", task[t].source, task[t].target,
               <<task[t].page>>)
    /\ UNCHANGED <<page_list, page_list_lock, nodes, classes_by_bidegree,
                   updated_elements, updated_elements_lock, ranges, out, calls,
                   unflushed, agentVars>>

\* ------------------------------------------- set_x_range_a ... set_initial_y_range_a
RangeNames == {"x_range", "y_range", "initial_x_range", "initial_y_range"}

RangeCmd ==
    [x_range |-> "chart.set_x_range", y_range |-> "chart.set_y_range",
     initial_x_range |-> "chart.set_initial_x_range",
     initial_y_range |-> "chart.set_initial_y_range"]

MsgSetRange(name, r) == [cmd |-> RangeCmd[name], x_min |-> r[1], x_max |-> r[2]]

CallSetRange(t, name, r) ==
    /\ Idle(t)
    /\ ranges' = [ranges EXCEPT ![name] = r]
    /\ task' = [task EXCEPT ![t] =
          Await(NewCall(name), MsgSetRange(name, r), "return")]
    /\ calls' = calls + 1
    /\ UNCHANGED <<page_list, page_list_lock, nodes, classes, classes_by_bidegree,
                   edges, updated_elements, updated_elements_lock, out, unflushed, agentVars>>

\* ===================================================== InteractiveChartAgent
\* Click coordinates are floats; the model counts them in tenths of a grid unit.
Scale == 10

\* add_class_on_click, line 101: threshold = 0.3
Threshold == 3

Abs(n) == IF n < 0 THEN -n ELSE n

\* Python's round(): the nearest integer, a tie going to the even one
RoundDown(v) == v \div Scale

Round(v) ==
    LET q == v \div Scale
        r == v - q * Scale
    IN IF 2 * r < Scale THEN q
       ELSE IF 2 * r > Scale THEN q + 1
       ELSE IF q % 2 = 0 THEN q ELSE q + 1

\* line 102: abs(x - rx) < threshold
WithinThreshold(v, rv) == Abs(v - rv * Scale) < Threshold

\* the payload of interact.result: an answer, or null
NoResult == "None"
ResultInputs == {"red", NoResult}

\* where a click on empty space may land, in tenths
ClickPoints == {<<0, 0>>, <<8, 22>>, <<-2, 18>>, <<3, 0>>, <<10, 17>>, <<15, 20>>}
EmptyClick == {<<0, 0>>}

\* the bidegrees of the classes a script adds before the interaction starts;
\* among the first set the displacements (0,2), (1,3), (3,5), (3,3), (2,2)
\* and (1,1) all occur
ExtensionBidegrees == {<<0, 0>>, <<0, 2>>, <<1, 3>>, <<3, 5>>}
DifferentialBidegrees == {<<1, 0>>, <<0, 2>>, <<0, 3>>, <<1, 2>>}
ColorBidegrees == {<<0, 0>>}

\* the coroutines the agent has scheduled run two at a time at most
Coroutines == {1, 2}

MsgPrompt(msg, default) == [cmd |-> "interact.prompt", msg |-> msg, default |-> default]

\* the info text names a class, or is empty
MsgSetInfo(c) == [cmd |-> "interact.mode.set_info", info |-> c]

\* the chart is built by a script calling add_class before the first message
ApiAddClass(x, y) ==
    /\ events = 0
    /\ Len(classes) < MaxClasses
    /\ LET c == NewClass(classes, x, y)
       IN /\ classes' = Append(classes, c)
          /\ classes_by_bidegree' = BidegreeAppend(classes_by_bidegree, Pos(c), Len(classes) + 1)
          /\ out' = Append(out, MsgClassAdd(c))
    /\ UNCHANGED <<page_list, page_list_lock, nodes, edges, updated_elements,
                   updated_elements_lock, ranges, task, calls, unflushed, agentVars>>

\* handle__click__a, lines 24-29: the handler of the mode that is active now
\* is scheduled; it runs later
Click(t, x, y, c) ==
    /\ events < MaxEvents
    /\ FreeTask(t)
    /\ task' = [task EXCEPT ![t] =
          [NewCall("click") EXCEPT !.pc = "handler", !.mode = mode,
                                   !.xy = <<x, y>>, !.c = c]]
    /\ events' = events + 1
    /\ envelope' = Invoked(envelope, "handle__click__a")
    /\ UNCHANGED <<chartVars, out, calls, unflushed, mode, interact_source, source_mode,
                   differential_source, extension_source,
                   extension_prev_color_default, extension, response_event,
                   nudge_class, errors>>

\* an exception leaves the handler of the message `cmd`
Raise(error, cmd, arg) ==
    Append(errors, [error |-> error, cmd |-> cmd, mode |-> mode, arg |-> arg])

\* lines 105-107 and the @register_mode lines: InteractiveChartAgent.modes
RegisteredModes ==
    {"NoMode", "AddClassMode", "AddEdgeMode", "NameClassMode", "ColorMode",
     "AddExtensionMode", "AddDifferentialMode", "NudgeClassMode"}

\* line 76: new_mode in InteractiveChartAgent.modes
IsRegisteredAny(new_mode) == TRUE

IsRegistered(new_mode) == new_mode \in RegisteredModes

UnknownMode == "RuntimeError: Unknown mode"

\* handle__interact__mode__set__a, lines 72-79
ModeSet(new_mode) ==
    /\ events < MaxEvents
    /\ IF IsRegistered(new_mode)
       THEN /\ mode' = new_mode
            /\ errors' = errors
       ELSE /\ mode' = mode
            /\ errors' = Raise(UnknownMode, "interact.mode.set", new_mode)
    /\ events' = events + 1
    /\ envelope' = Invoked(envelope, "handle__interact__mode__set__a")
    /\ UNCHANGED <<chartVars, out, task, calls, unflushed, interact_source, source_mode,
                   differential_source, extension_source,
                   extension_prev_color_default, extension, response_event,
                   nudge_class>>

\* asyncio.Event.set(): every coroutine waiting in wait() is woken
Woken(tk) == IF tk.pc = "prompt_wait" THEN [tk EXCEPT !.pc = "prompt_woken"] ELSE tk

\* handle__interact__result__a, lines 92-96
Result(v) ==
    /\ events < MaxEvents
    /\ response_event' =
          [is_set |-> TRUE, result |-> v,
           log |-> Append(response_event.log, [at |-> Len(out), result |-> v])]
    /\ task' = [t \in Tasks |-> Woken(task[t])]
    /\ events' = events + 1
    /\ envelope' = Invoked(envelope, "handle__interact__result__a")
    /\ UNCHANGED <<chartVars, out, calls, unflushed, mode, interact_source, source_mode,
                   differential_source, extension_source,
                   extension_prev_color_default, extension,
                   nudge_class, errors>>

Handling(t, m) == task[t].pc = "handler" /\ task[t].mode = m

\* NoMode.handle_click_a, lines 122-123
HandleNoMode(t) ==
    /\ Handling(t, "NoMode")
    /\ task' = [task EXCEPT ![t] = Returned(task[t])]
    /\ UNCHANGED <<chartVars, out, calls, unflushed, agentVars>>

\* AddClassMode.handle_click_a, lines 128-139, with add_class_on_click
HandleAddClass(t) ==
    /\ Handling(t, "AddClassMode")
    /\ LET tk == task[t]
           rx == Round(tk.xy[1])
           ry == Round(tk.xy[2])
           c == NewClass(classes, rx, ry)
           ref == Len(classes) + 1
           cls1 == Append(classes, c)
           e == NewEdge(edges, "structline", interact_source, ref, NoPage)
       IN IF tk.c # None
          THEN /\ task' = [task EXCEPT ![t] =
                    Await([tk EXCEPT !.prompt = "name"],
                          MsgPrompt("Name?", classes[tk.c].name), "prompt_wait")]
               /\ UNCHANGED <<classes, classes_by_bidegree, edges, out, interact_source, source_mode>>
          ELSE IF WithinThreshold(tk.xy[1], rx) /\ WithinThreshold(tk.xy[2], ry)
          THEN /\ classes_by_bidegree' = BidegreeAppend(classes_by_bidegree, Pos(c), ref)
               /\ IF interact_source # None
                  THEN /\ classes' = Incident(cls1, interact_source, ref, Len(edges) + 1)
                       /\ edges' = Append(edges, e)
                       /\ out' = out \o <<MsgClassAdd(c), MsgEdgeAdd(cls1, e)>>
                  ELSE /\ classes' = cls1
                       /\ edges' = edges
                       /\ out' = Append(out, MsgClassAdd(c))
               /\ interact_source' = ref
               /\ source_mode' = tk.mode
               /\ task' = [task EXCEPT ![t] =
                    Await([tk EXCEPT !.c = ref, !.source = interact_source],
                          MsgSetInfo(ref), "upd_lock")]
          ELSE /\ task' = [task EXCEPT ![t] = Returned(tk)]
               /\ UNCHANGED <<classes, classes_by_bidegree, edges, out, interact_source, source_mode>>
    /\ UNCHANGED <<page_list, page_list_lock, nodes, updated_elements,
                   updated_elements_lock, ranges, calls, unflushed, mode,
                   differential_source, extension_source,
                   extension_prev_color_default, extension, response_event, events,
                   nudge_class, errors,
                   envelope>>

\* AddEdgeMode.handle_click_a, lines 150-155: the pending source after a click
\* on class c
EdgeModeSourceKeepsClick(source, c) == c

EdgeModeSource(source, c) == IF source = None THEN c ELSE None

\* AddEdgeMode.handle_click_a, lines 147-157
HandleAddEdge(t) ==
    /\ Handling(t, "AddEdgeMode")
    /\ LET tk == task[t]
           e == NewEdge(edges, "structline", interact_source, tk.c, NoPage)
       IN IF tk.c = None
          THEN /\ task' = [task EXCEPT ![t] = Returned(tk)]
               /\ UNCHANGED <<classes, edges, out, interact_source, source_mode>>
          ELSE IF interact_source = None
          THEN /\ interact_source' = EdgeModeSource(interact_source, tk.c)
               /\ source_mode' = tk.mode
               /\ task' = [task EXCEPT ![t] = Await(tk, MsgSetInfo(tk.c), "return")]
               /\ UNCHANGED <<classes, edges, out>>
          ELSE /\ classes' = Incident(classes, interact_source, tk.c, Len(edges) + 1)
               /\ edges' = Append(edges, e)
               /\ out' = Append(out, MsgEdgeAdd(classes, e))
               /\ interact_source' = EdgeModeSource(interact_source, tk.c)
               /\ source_mode' = IF EdgeModeSource(interact_source, tk.c) = None
                                 THEN "none" ELSE tk.mode
               /\ task' = [task EXCEPT ![t] =
                    Await([tk EXCEPT !.source = interact_source],
                          MsgSetInfo(None), "upd_lock")]
    /\ UNCHANGED <<page_list, page_list_lock, nodes, classes_by_bidegree,
                   updated_elements, updated_elements_lock, ranges, calls, unflushed,
                   mode, differential_source, extension_source,
                   extension_prev_color_default, extension, response_event, events,
                   nudge_class, errors,
                   envelope>>

\* AddExtensionMode.handle_click_a, lines 192-197: the displacement is valid
ValidExtensionLoose(s, g) == g.x - s.x \in 0..3 /\ ~(g.y - s.y < 2)

ValidExtension(s, g) == g.x - s.x \in {0, 1, 3} /\ ~(g.y - s.y < 2)

\* AddExtensionMode.handle_click_a, lines 182-199
HandleAddExtension(t) ==
    /\ Handling(t, "AddExtensionMode")
    /\ LET tk == task[t]
       IN IF tk.c = None
          THEN /\ task' = [task EXCEPT ![t] = Returned(tk)]
               /\ UNCHANGED extension_source
          ELSE IF extension_source = None
          THEN /\ extension_source' = tk.c
               /\ task' = [task EXCEPT ![t] = Await(tk, MsgSetInfo(tk.c), "return")]
          ELSE IF ~ValidExtension(classes[extension_source], classes[tk.c])
          THEN /\ task' = [task EXCEPT ![t] = Returned(tk)]
               /\ UNCHANGED extension_source
          ELSE /\ task' = [task EXCEPT ![t] =
                    Await([tk EXCEPT !.prompt = "extension",
                                     !.source = extension_source, !.target = tk.c],
                          MsgPrompt("Color?", extension_prev_color_default),
                          "prompt_wait")]
               /\ UNCHANGED extension_source
    /\ UNCHANGED <<chartVars, out, calls, unflushed, mode, interact_source, source_mode,
                   differential_source, extension_prev_color_default, extension,
                   response_event, events,
                   nudge_class, errors,
                   envelope>>

\* AddDifferentialMode.handle_click_a, line 236: the click is valid
ValidDifferentialSameColumn(s, g) == ~(s.x # g.x)

ValidDifferential(s, g) == ~(s.x # g.x + 1)

\* line 240
DifferentialPage(s, g) == g.y - s.y

\* AddDifferentialMode.handle_click_a, lines 226-244; add_differential (lines
\* 165-173 of chart.py) runs to its end inside the handler
HandleAddDifferential(t) ==
    /\ Handling(t, "AddDifferentialMode")
    /\ LET tk == task[t]
       IN IF tk.c = None
          THEN /\ task' = [task EXCEPT ![t] = Returned(tk)]
               /\ UNCHANGED <<page_list, classes, edges, updated_elements, unflushed,
                              out, differential_source>>
          ELSE IF differential_source = None
          THEN /\ differential_source' = tk.c
               /\ task' = [task EXCEPT ![t] = Await(tk, MsgSetInfo(tk.c), "return")]
               /\ UNCHANGED <<page_list, classes, edges, updated_elements, unflushed, out>>
          ELSE IF ~ValidDifferential(classes[differential_source], classes[tk.c])
          THEN /\ task' = [task EXCEPT ![t] = Returned(tk)]
               /\ UNCHANGED <<page_list, classes, edges, updated_elements, unflushed,
                              out, differential_source>>
          ELSE LET s == differential_source
                   g == tk.c
                   page == DifferentialPage(classes[s], classes[g])
                   r == <<page, page>>
                   present == InSeq(page_list, r)
                   idx == FindIdx(page_list, r)
                   cls1 == AddPage(classes, s, g, page)
                   e == [NewEdge(edges, "differential", s, g, <<page>>)
                            EXCEPT !.color = "blue"]
               IN /\ page_list' = IF present THEN page_list
                                  ELSE InsertAt(page_list, idx, r)
                  /\ updated_elements' = {}
                  /\ unflushed' = Flushed(unflushed, updated_elements)
                  /\ classes' = Incident(cls1, s, g, Len(edges) + 1)
                  /\ edges' = Append(edges, e)
                  /\ out' = out
                       \o (IF present THEN <<>> ELSE <<MsgInsertPageRange(r, idx)>>)
                       \o <<MsgClassUpdate(updated_elements), MsgEdgeAdd(cls1, e)>>
                  /\ differential_source' = None
                  /\ task' = [task EXCEPT ![t] =
                       Await([tk EXCEPT !.source = s, !.target = g, !.page = page],
                             MsgSetInfo(None), "upd_lock")]
    /\ UNCHANGED <<page_list_lock, nodes, classes_by_bidegree, updated_elements_lock,
                   ranges, calls, mode, interact_source, source_mode, extension_source,
                   extension_prev_color_default, extension, response_event, events,
                   nudge_class, errors,
                   envelope>>

\* prompt_a, lines 41-43: the result stored on the event is what the prompt
\* returns. History: where the request stands in `out`, and which
\* interact.result was the last to arrive when the prompt returned; `prompts`
\* keeps this for every prompt of the coroutine.
Answered(tk) ==
    [tk EXCEPT !.asked = tk.sent[Len(tk.sent)],
               !.result_n = Len(response_event.log),
               !.answer = response_event.result,
               !.prompts = Append(@, [asked |-> tk.sent[Len(tk.sent)],
                                      n |-> Len(response_event.log),
                                      answer |-> response_event.result])]

\* prompt_a, lines 41-43, and what the caller does with the answer:
\* prompt_for_class_name_a lines 33-36, AddExtensionMode lines 200-205
PromptResume(t) ==
    /\ task[t].pc = "prompt_woken"
    /\ task[t].prompt \in {"name", "extension"}
    /\ response_event' = [response_event EXCEPT !.is_set = FALSE]
    /\ LET tk == Answered(task[t])
           result == response_event.result
           e == [NewEdge(edges, "extension", tk.source, tk.target, NoPage)
                    EXCEPT !.color = result]
       IN IF tk.prompt = "name"
          THEN /\ IF result = NoResult
                  THEN /\ task' = [task EXCEPT ![t] = Returned(tk)]
                       /\ classes' = classes
                  ELSE /\ task' = [task EXCEPT ![t] = [tk EXCEPT !.pc = "upd_lock"]]
                       /\ classes' = [classes EXCEPT ![tk.c].name = result]
               /\ UNCHANGED <<edges, out, extension_prev_color_default, extension,
                              extension_source>>
          ELSE /\ extension_prev_color_default' = result
               /\ classes' = Incident(classes, tk.source, tk.target, Len(edges) + 1)
               /\ edges' = Append(edges, e)
               /\ out' = Append(out, MsgEdgeAdd(classes, e))
               /\ extension' = Len(edges) + 1
               /\ extension_source' = None
               /\ task' = [task EXCEPT ![t] = [tk EXCEPT !.pc = "upd_lock"]]
    /\ UNCHANGED <<page_list, page_list_lock, nodes, classes_by_bidegree,
                   updated_elements, updated_elements_lock, ranges, calls, unflushed,
                   mode, interact_source, source_mode, differential_source, events,
                   nudge_class, errors,
                   envelope>>

\* ------------------------------------------------------- prompt_for_colors_a
\* lines 46-49 and 56-59: the suggested value is the current colour, or
\* "black" when the object has no colour attribute
ColorDefault(color) == IF color = "unset" THEN "black" ELSE color

\* lines 51-52 and 64-65: a null answer leaves the colour as it is
RecoloredAlways(color, result) == result

Recolored(color, result) == IF result = NoResult THEN color ELSE result

MsgColorPrompt(kind, ref, default) ==
    [cmd |-> "interact.prompt", msg |-> "New color?", about |-> <<kind, ref>>,
     default |-> default]

\* ColorMode.handle_click_a, lines 174-177: prompt_for_colors_a is scheduled
HandleColorClick(t) ==
    /\ Handling(t, "ColorMode")
    /\ task' = [task EXCEPT ![t] =
          IF task[t].c = None THEN Returned(task[t])
          ELSE [task[t] EXCEPT !.pc = "colors_start", !.prompt = "color"]]
    /\ UNCHANGED <<chartVars, out, calls, unflushed, agentVars>>

\* lines 46-50: the prompt for the colour of the class
ColorsStart(t) ==
    /\ task[t].pc = "colors_start"
    /\ task' = [task EXCEPT ![t] =
          Await([task[t] EXCEPT !.k = 0],
                MsgColorPrompt("class", task[t].c, ColorDefault(classes[task[t].c].color)),
                "prompt_wait")]
    /\ UNCHANGED <<chartVars, out, calls, unflushed, agentVars>>

\* lines 51-66: the answer is applied to the class (k = 0) or to the k-th
\* entry of c._edges, and the loop goes on to the next entry or to update_a
ColorsResume(t) ==
    /\ task[t].pc = "prompt_woken"
    /\ task[t].prompt = "color"
    /\ response_event' = [response_event EXCEPT !.is_set = FALSE]
    /\ LET tk == Answered(task[t])
           result == response_event.result
           c == tk.c
           es == classes[c].edges
           cls1 == IF tk.k = 0
                   THEN [classes EXCEPT ![c].color = Recolored(@, result)]
                   ELSE classes
           eds1 == IF tk.k = 0
                   THEN edges
                   ELSE [edges EXCEPT ![es[tk.k]].color = Recolored(@, result)]
       IN /\ classes' = cls1
          /\ edges' = eds1
          /\ task' = [task EXCEPT ![t] =
                IF tk.k < Len(es)
                THEN Await([tk EXCEPT !.k = tk.k + 1],
                           MsgColorPrompt("edge", es[tk.k + 1],
                                          ColorDefault(eds1[es[tk.k + 1]].color)),
                           "prompt_wait")
                ELSE [tk EXCEPT !.pc = "upd_lock"]]
    /\ UNCHANGED <<page_list, page_list_lock, nodes, classes_by_bidegree,
                   updated_elements, updated_elements_lock, ranges, out, calls,
                   unflushed, mode, interact_source, source_mode, differential_source,
                   extension_source, extension_prev_color_default, extension,
                   nudge_class, errors, events,
                   envelope>>

\* the script that builds the chart joins classes by add_structline before
\* the first message
ApiAddStructline(source, target) ==
    /\ events = 0
    /\ Len(edges) < MaxEdges
    /\ LET e == NewEdge(edges, "structline", source, target, NoPage)
       IN /\ edges' = Append(edges, e)
          /\ classes' = Incident(classes, source, target, Len(edges) + 1)
          /\ out' = Append(out, MsgEdgeAdd(classes, e))
    /\ UNCHANGED <<page_list, page_list_lock, nodes, classes_by_bidegree,
                   updated_elements, updated_elements_lock, ranges, task, calls,
                   unflushed, agentVars>>

\* line 31: the parameters of prompt_for_class_name_a besides self
PromptForClassNameParams == <<"c">>

\* line 170: the arguments NameClassMode passes to it
NameClassArgs(c, x, y) == <<c, x, y>>

TypeError == "TypeError"

\* NameClassMode.handle_click_a, lines 167-170: the call of
\* prompt_for_class_name_a binds its arguments before any of its code runs
HandleNameClass(t) ==
    /\ Handling(t, "NameClassMode")
    /\ LET tk == task[t]
       IN IF tk.c = None
          THEN /\ task' = [task EXCEPT ![t] = Returned(tk)]
               /\ errors' = errors
          ELSE IF Len(NameClassArgs(tk.c, tk.xy[1], tk.xy[2])) # Len(PromptForClassNameParams)
          THEN /\ errors' = Raise(TypeError, "click", "prompt_for_class_name_a")
               /\ task' = [task EXCEPT ![t] = Returned(tk)]
          ELSE /\ task' = [task EXCEPT ![t] =
                    Await([tk EXCEPT !.prompt = "name"],
                          MsgPrompt("Name?", classes[tk.c].name), "prompt_wait")]
               /\ errors' = errors
    /\ UNCHANGED <<chartVars, out, calls, unflushed, mode, interact_source, source_mode,
                   differential_source, extension_source,
                   extension_prev_color_default, extension, response_event,
                   nudge_class, events,
                   envelope>>

\* ------------------------------------------------- interact.mode.<subcommand>
\* the handle__<subcommand>__a methods a mode has: Mode (lines 116-117) gives
\* every mode a cancel handler; lines 210 and 266 define the other two
HasHandlerCancelOnly(m, sub) == sub = "cancel"

HasHandler(m, sub) ==
    \/ sub = "cancel"
    \/ m = "AddExtensionMode" /\ sub = "extension.adjust_bend"
    \/ m = "NudgeClassMode" /\ sub = "nudge_class"

InvalidModeCommand == "RuntimeError: Invalid mode command"

\* handle__interact__mode__a, lines 81-89: the handler of the mode that is
\* active now is scheduled with the message's arguments, or the message fails
ModeCommand(t, sub, args) ==
    /\ events < MaxEvents
    /\ events' = events + 1
    /\ IF HasHandler(mode, sub)
       THEN /\ FreeTask(t)
            /\ task' = [task EXCEPT ![t] =
                 [NewCall(sub) EXCEPT !.pc = "command", !.mode = mode, !.xy = args]]
            /\ errors' = errors
       ELSE /\ t = 1
            /\ errors' = Raise(InvalidModeCommand, sub, sub)
            /\ task' = task
    /\ envelope' = Invoked(envelope, "handle__interact__mode__a")
    /\ UNCHANGED <<chartVars, out, calls, unflushed, mode, interact_source, source_mode,
                   differential_source, extension_source,
                   extension_prev_color_default, extension, response_event,
                   nudge_class>>

Commanded(t, sub) == task[t].pc = "command" /\ task[t].op = sub

\* the fields the cancel handler of mode m sets to None: lines 142, 160, 219,
\* 249, 263; Mode.handle__cancel__a (lines 116-117) returns at once
CancelClears(m) ==
    IF m \in {"AddClassMode", "AddEdgeMode"} THEN {"interact"}
    ELSE IF m = "AddExtensionMode" THEN {"extension"}
    ELSE IF m = "AddDifferentialMode" THEN {"differential"}
    ELSE IF m = "NudgeClassMode" THEN {"nudge"}
    ELSE {}

Cleared(field, m, value) == IF field \in CancelClears(m) THEN None ELSE value

\* the handle__cancel__a of the mode the message was dispatched to
HandleCancel(t) ==
    /\ Commanded(t, "cancel")
    /\ LET m == task[t].mode
       IN /\ interact_source' = Cleared("interact", m, interact_source)
          /\ source_mode' = IF "interact" \in CancelClears(m) THEN "none" ELSE source_mode
          /\ extension_source' = Cleared("extension", m, extension_source)
          /\ differential_source' = Cleared("differential", m, differential_source)
          /\ nudge_class' = Cleared("nudge", m, nudge_class)
          /\ task' = [task EXCEPT ![t] =
                IF CancelClears(m) = {} THEN Returned(task[t])
                ELSE Await(task[t], MsgSetInfo(None), "return")]
    /\ UNCHANGED <<chartVars, out, calls, unflushed, mode,
                   extension_prev_color_default, extension, response_event,
                   errors, events,
                   envelope>>

\* reading an attribute that __init__ (lines 13-22) never assigned
AttributeError == "AttributeError"

\* the arguments of interact.mode.nudge_class and interact.mode.extension.adjust_bend
NudgeInputs == {<<1, 0>>, <<0, -1>>}
BendInputs == {<<1>>}

\* NudgeClassMode.handle_click_a, lines 255-260
HandleNudgeClick(t) ==
    /\ Handling(t, "NudgeClassMode")
    /\ IF task[t].c = None
       THEN /\ task' = [task EXCEPT ![t] = Returned(task[t])]
            /\ nudge_class' = nudge_class
       ELSE /\ nudge_class' = task[t].c
            /\ task' = [task EXCEPT ![t] = Await(task[t], MsgSetInfo(task[t].c), "return")]
    /\ UNCHANGED <<chartVars, out, calls, unflushed, mode, interact_source, source_mode,
                   differential_source, extension_source,
                   extension_prev_color_default, extension, response_event,
                   errors, events,
                   envelope>>

\* lines 270-275: the offsets of class c after a nudge by d
Nudged(cls, c, d) == [cls EXCEPT ![c].x_nudge = @ + d[1], ![c].y_nudge = @ + d[2]]

\* NudgeClassMode.handle__nudge_class__a, lines 266-276
HandleNudge(t) ==
    /\ Commanded(t, "nudge_class")
    /\ IF nudge_class = Unset
       THEN /\ errors' = Raise(AttributeError, "nudge_class", "_nudge_class")
            /\ task' = [task EXCEPT ![t] = Returned(task[t])]
            /\ classes' = classes
       ELSE IF nudge_class = None
       THEN /\ task' = [task EXCEPT ![t] = Returned(task[t])]
            /\ UNCHANGED <<classes, errors>>
       ELSE /\ classes' = Nudged(classes, nudge_class, task[t].xy)
            /\ task' = [task EXCEPT ![t].pc = "upd_lock"]
            /\ errors' = errors
    /\ UNCHANGED <<page_list, page_list_lock, nodes, classes_by_bidegree, edges,
                   updated_elements, updated_elements_lock, ranges, out, calls,
                   unflushed, mode, interact_source, source_mode, differential_source,
                   extension_source, extension_prev_color_default, extension,
                   response_event, nudge_class, events,
                   envelope>>

\* AddExtensionMode.handle__extension__adjust_bend__a, lines 210-215
HandleAdjustBend(t) ==
    /\ Commanded(t, "extension.adjust_bend")
    /\ IF extension = Unset
       THEN /\ errors' = Raise(AttributeError, "extension.adjust_bend", "_extension")
            /\ task' = [task EXCEPT ![t] = Returned(task[t])]
            /\ edges' = edges
       ELSE /\ edges' = [edges EXCEPT ![extension].bend = @ + task[t].xy[1]]
            /\ task' = [task EXCEPT ![t].pc = "upd_lock"]
            /\ errors' = errors
    /\ UNCHANGED <<page_list, page_list_lock, nodes, classes, classes_by_bidegree,
                   updated_elements, updated_elements_lock, ranges, out, calls,
                   unflushed, mode, interact_source, source_mode, differential_source,
                   extension_source, extension_prev_color_default, extension,
                   response_event, nudge_class, events,
                   envelope>>

\* ------------------------------------------------ a fault in broadcast_a
BroadcastFault == "Exception in broadcast_a"

\* the call ended with an exception
Faulted(tk) == [Returned(tk) EXCEPT !.after = "fault"]

\* leaving a `with lock:` block (lines 104, 133), also by an exception:
\* the lock is released if t holds it
Released(lock, t) == IF lock = t THEN NoTask ELSE lock

\* line 114 or line 134: `await self.broadcast_a(...)` raises inside the
\* `with` block; the exception leaves add_page_range_a or update_a (and
\* add_differential_a, when it is the caller), so line 137 is not reached
BroadcastRaises(t) ==
    /\ task[t].pc = "broadcast"
    /\ task[t].msg.cmd \in {"chart.insert_page_range", "chart.class.update"}
    /\ page_list_lock' = Released(page_list_lock, t)
    /\ updated_elements_lock' = Released(updated_elements_lock, t)
    /\ errors' = Raise(BroadcastFault, task[t].msg.cmd, "")
    /\ task' = [task EXCEPT ![t] = Faulted(task[t])]
    /\ UNCHANGED <<page_list, nodes, classes, classes_by_bidegree, edges,
                   updated_elements, ranges, out, calls, unflushed, mode,
                   interact_source, source_mode, differential_source,
                   extension_source, extension_prev_color_default, extension,
                   response_event, nudge_class, envelope, events>>

\* ------------------------------------------- callers on one event loop
\* chart.py lines 26 and 40: the locks are threading.Lock objects. acquire()
\* on a held lock blocks the calling thread; when the caller is a coroutine
\* of an event loop, that thread is the loop's and no coroutine of the loop
\* runs until acquire() returns.
Acquiring == {"apr_acquire", "upd_acquire", "queue_acquire"}

\* the event loop's thread is not inside a blocking acquire()
Running == \A t \in Tasks : task[t].pc \notin Acquiring

\* line 104 with the page-list lock held by another coroutine
PageRangeBlock(t) ==
    /\ task[t].pc = "apr_lock"
    /\ page_list_lock # NoTask
    /\ task' = [task EXCEPT ![t].pc = "apr_acquire"]
    /\ UNCHANGED <<chartVars, out, calls, unflushed, agentVars>>

\* line 133 with the dirty-set lock held by another coroutine
UpdateBlock(t) ==
    /\ task[t].pc = "upd_lock"
    /\ updated_elements_lock # NoTask
    /\ task' = [task EXCEPT ![t].pc = "upd_acquire"]
    /\ UNCHANGED <<chartVars, out, calls, unflushed, agentVars>>

\* line 65 with the dirty-set lock held by another coroutine
QueueUpdateBlock(t, e) ==
    /\ Idle(t)
    /\ ~QueueLockFree(updated_elements_lock)
    /\ task' = [task EXCEPT ![t] = [NewCall("queue_update") EXCEPT !.pc = "queue_acquire"]]
    /\ calls' = calls + 1
    /\ UNCHANGED <<chartVars, out, unflushed, agentVars>>

\* --------------------------------------------------------- dispatch_inbound
\* an Envelope arrives and its dispatch round starts at the first handler
Receive(cmd) ==
    /\ ~InFlight(envelope)
    /\ events < MaxEvents
    /\ envelope' = [cmd |-> cmd, used |-> FALSE, marked_by |-> <<>>, next |-> 1]
    /\ UNCHANGED <<chartVars, out, task, calls, unflushed, mode, interact_source,
                   source_mode, differential_source, extension_source,
                   extension_prev_color_default, extension, response_event,
                   nudge_class, errors, events>>

\* the round invokes the handlers whose declared Command matches, in
\* registration order, while the Envelope is unconsumed: the first handler
\* that marks it used wins
Deliverable(h) ==
    /\ InFlight(envelope)
    /\ InboundHandlers[envelope.next] = h
    /\ Matches(HandlerCommand(h), envelope.cmd)
    /\ ~envelope.used

\* the handler at this position is not invoked
Pass ==
    /\ InFlight(envelope)
    /\ ~Deliverable(InboundHandlers[envelope.next])
    /\ envelope' = [envelope EXCEPT !.next = @ + 1]
    /\ UNCHANGED <<chartVars, out, task, calls, unflushed, mode, interact_source,
                   source_mode, differential_source, extension_source,
                   extension_prev_color_default, extension, response_event,
                   nudge_class, errors, events>>

\* line 85: cmd.part_list[2:], the segments after interact.mode
Subcommand(cmd) ==
    LET parts == SubSeq(cmd, 3, Len(cmd))
    IN IF parts = <<>> THEN ""
       ELSE IF Len(parts) = 1 THEN parts[1]
       ELSE parts[1] \o "." \o parts[2]

\* ------------------------------------------------------------ specifications
TaskStep(t) ==
    \/ PageRangeLock(t)
    \/ PageRangeRelease(t)
    \/ UpdateLock(t)
    \/ UpdateClear(t)
    \/ ClassAppend(t)
    \/ DifferentialEdge(t)
    \/ Broadcast(t)

TaskCall(t) ==
    \/ \E r \in PageRangeInputs : CallAddPageRange(t, r)
    \/ \E e \in ElementInputs : CallQueueUpdate(t, e)
    \/ CallUpdate(t)
    \/ CallAddNode(t)
    \/ \E b \in Bidegrees : CallAddClass(t, b[1], b[2])
    \/ \E b \in Bidegrees : CallAddClassColor(t, b[1], b[2])
    \/ \E s \in ClassRefs, g \in ClassRefs : CallAddStructline(t, s, g)
    \/ \E s \in ClassRefs, g \in ClassRefs : CallAddExtension(t, s, g)
    \/ \E p \in PageInputs, s \in ClassRefs, g \in ClassRefs, a \in BOOLEAN :
          CallAddDifferential(t, p, s, g, a)
    \/ \E n \in RangeNames, r \in RangeInputs : CallSetRange(t, n, r)

\* one caller, every operation
Next == \E t \in {1} : TaskCall(t) \/ TaskStep(t)

Spec == Init /\ [][Next]_vars

\* the callers only insert page ranges
PagesNext ==
    \E t \in Tasks :
        \/ \E r \in PageRangeInputs : CallAddPageRange(t, r)
        \/ PageRangeLock(t)
        \/ PageRangeRelease(t)
        \/ Broadcast(t)

SpecPages == Init /\ [][PagesNext]_vars

\* the callers only queue and flush updates
UpdateNext ==
    \E t \in Tasks :
        \/ \E e \in ElementInputs : CallQueueUpdate(t, e)
        \/ CallUpdate(t)
        \/ UpdateLock(t)
        \/ UpdateClear(t)
        \/ Broadcast(t)

SpecUpdate == Init /\ [][UpdateNext]_vars

\* two callers only add classes and edges
EdgesNext ==
    \E t \in {1, 2} :
        \/ \E b \in Bidegrees : CallAddClass(t, b[1], b[2])
        \/ \E b \in Bidegrees : CallAddClassColor(t, b[1], b[2])
        \/ ClassAppend(t)
        \/ \E s \in ClassRefs, g \in ClassRefs : CallAddStructline(t, s, g)
        \/ \E s \in ClassRefs, g \in ClassRefs : CallAddExtension(t, s, g)
        \/ \E p \in PageInputs, s \in ClassRefs, g \in ClassRefs, a \in BOOLEAN :
              CallAddDifferential(t, p, s, g, a)
        \/ PageRangeLock(t)
        \/ PageRangeRelease(t)
        \/ UpdateLock(t)
        \/ UpdateClear(t)
        \/ DifferentialEdge(t)
        \/ Broadcast(t)

SpecEdges == Init /\ [][EdgesNext]_vars

\* clicks in AddClassMode and AddEdgeMode, which share _interact_source
AddClassNext ==
    \/ \E m \in {"AddClassMode", "AddEdgeMode"} : ModeSet(m)
    \/ \E v \in ResultInputs : Result(v)
    \/ \E t \in Coroutines :
          \/ \E p \in ClickPoints : Click(t, p[1], p[2], None)
          \/ \E c \in ClassRefs : Click(t, classes[c].x * Scale, classes[c].y * Scale, c)
          \/ HandleNoMode(t)
          \/ HandleAddClass(t)
          \/ HandleAddEdge(t)
          \/ PromptResume(t)
          \/ UpdateLock(t)
          \/ UpdateClear(t)
          \/ Broadcast(t)

SpecAddClass == Init /\ [][AddClassNext]_vars

\* clicks in AddExtensionMode on a chart a script has built
AddExtensionNext ==
    \/ \E b \in ExtensionBidegrees : ApiAddClass(b[1], b[2])
    \/ \E m \in {"NoMode", "AddExtensionMode"} : ModeSet(m)
    \/ \E v \in ResultInputs : Result(v)
    \/ \E t \in Coroutines :
          \/ \E p \in EmptyClick : Click(t, p[1], p[2], None)
          \/ \E c \in ClassRefs : Click(t, classes[c].x * Scale, classes[c].y * Scale, c)
          \/ HandleNoMode(t)
          \/ HandleAddExtension(t)
          \/ PromptResume(t)
          \/ UpdateLock(t)
          \/ UpdateClear(t)
          \/ Broadcast(t)

SpecAddExtension == Init /\ [][AddExtensionNext]_vars

\* clicks in AddDifferentialMode on a chart a script has built
AddDifferentialNext ==
    \/ \E b \in DifferentialBidegrees : ApiAddClass(b[1], b[2])
    \/ \E m \in {"NoMode", "AddDifferentialMode"} : ModeSet(m)
    \/ \E t \in Coroutines :
          \/ \E p \in EmptyClick : Click(t, p[1], p[2], None)
          \/ \E c \in ClassRefs : Click(t, classes[c].x * Scale, classes[c].y * Scale, c)
          \/ HandleNoMode(t)
          \/ HandleAddDifferential(t)
          \/ UpdateLock(t)
          \/ UpdateClear(t)
          \/ Broadcast(t)

SpecAddDifferential == Init /\ [][AddDifferentialNext]_vars

\* clicks in AddEdgeMode on a chart a script has built
AddEdgeNext ==
    \/ \E b \in Bidegrees : ApiAddClass(b[1], b[2])
    \/ \E m \in {"NoMode", "AddEdgeMode"} : ModeSet(m)
    \/ \E t \in Coroutines :
          \/ \E p \in EmptyClick : Click(t, p[1], p[2], None)
          \/ \E c \in ClassRefs : Click(t, classes[c].x * Scale, classes[c].y * Scale, c)
          \/ HandleNoMode(t)
          \/ HandleAddEdge(t)
          \/ UpdateLock(t)
          \/ UpdateClear(t)
          \/ Broadcast(t)

SpecAddEdge == Init /\ [][AddEdgeNext]_vars

\* cancel messages between clicks in AddEdgeMode and AddDifferentialMode
CancelNext ==
    \/ \E b \in Bidegrees : ApiAddClass(b[1], b[2])
    \/ \E m \in {"AddEdgeMode", "AddDifferentialMode"} : ModeSet(m)
    \/ \E t \in Coroutines :
          \/ \E c \in ClassRefs : Click(t, classes[c].x * Scale, classes[c].y * Scale, c)
          \/ ModeCommand(t, "cancel", <<>>)
          \/ HandleCancel(t)
          \/ HandleNoMode(t)
          \/ HandleAddEdge(t)
          \/ HandleAddDifferential(t)
          \/ UpdateLock(t)
          \/ UpdateClear(t)
          \/ Broadcast(t)

SpecCancel == Init /\ [][CancelNext]_vars

\* interact.mode.set and interact.mode.<subcommand> messages, with names that
\* are registered or defined and names that are not
ModeNames == RegisteredModes \cup {"Mode", "RenameMode"}

Subcommands == {"cancel", "nudge_class", "extension.adjust_bend", "rename"}

CommandArgs(sub) ==
    IF sub = "nudge_class" THEN NudgeInputs
    ELSE IF sub = "extension.adjust_bend" THEN BendInputs
    ELSE {<<>>}

ModesNext ==
    \/ \E m \in ModeNames : ModeSet(m)
    \/ \E t \in Coroutines :
          \/ \E sub \in Subcommands : \E args \in CommandArgs(sub) :
                ModeCommand(t, sub, args)
          \/ HandleCancel(t)
          \/ HandleNudge(t)
          \/ HandleAdjustBend(t)
          \/ Broadcast(t)

SpecModes == Init /\ [][ModesNext]_vars

\* clicks in NameClassMode on a chart a script has built
RenameNext ==
    \/ \E b \in Bidegrees : ApiAddClass(b[1], b[2])
    \/ \E m \in {"NoMode", "NameClassMode"} : ModeSet(m)
    \/ \E v \in ResultInputs : Result(v)
    \/ \E t \in Coroutines :
          \/ \E p \in EmptyClick : Click(t, p[1], p[2], None)
          \/ \E c \in ClassRefs : Click(t, classes[c].x * Scale, classes[c].y * Scale, c)
          \/ HandleNoMode(t)
          \/ HandleNameClass(t)

SpecRename == Init /\ [][RenameNext]_vars

\* clicks in ColorMode on a chart a script has built: structlines from the
\* first class to itself or the second class, and clicks on the first class
ColorNext ==
    \/ \E b \in ColorBidegrees : ApiAddClass(b[1], b[2])
    \/ \E d \in ClassRefs \cap {1, 2} : ApiAddStructline(1, d)
    \/ \E m \in {"ColorMode"} : ModeSet(m)
    \/ \E v \in ResultInputs : Result(v)
    \/ \E t \in Coroutines :
          \/ \E c \in ClassRefs \cap {1} :
                Click(t, classes[c].x * Scale, classes[c].y * Scale, c)
          \/ HandleNoMode(t)
          \/ HandleColorClick(t)
          \/ ColorsStart(t)
          \/ ColorsResume(t)
          \/ UpdateLock(t)
          \/ UpdateClear(t)
          \/ Broadcast(t)

SpecColor == Init /\ [][ColorNext]_vars

\* clicks, nudges and cancels in NudgeClassMode on a chart a script has built
NudgeNext ==
    \/ \E b \in Bidegrees : ApiAddClass(b[1], b[2])
    \/ \E m \in {"NudgeClassMode"} : ModeSet(m)
    \/ \E t \in Coroutines :
          \/ \E c \in ClassRefs : Click(t, classes[c].x * Scale, classes[c].y * Scale, c)
          \/ \E d \in NudgeInputs : ModeCommand(t, "nudge_class", d)
          \/ ModeCommand(t, "cancel", <<>>)
          \/ HandleNoMode(t)
          \/ HandleNudgeClick(t)
          \/ HandleNudge(t)
          \/ HandleCancel(t)
          \/ UpdateLock(t)
          \/ UpdateClear(t)
          \/ Broadcast(t)

SpecNudge == Init /\ [][NudgeNext]_vars

\* the dispatch of inbound Envelopes to the handlers of InteractiveChartAgent
InboundCommands ==
    {<<"click">>, <<"interact", "mode", "set">>, <<"interact", "mode", "cancel">>,
     <<"interact", "mode", "rename">>, <<"interact", "result">>}

DispatchNext ==
    \/ \E cmd \in InboundCommands : Receive(cmd)
    \/ Pass
    \/ /\ Deliverable("handle__interact__mode__set__a")
       /\ \E m \in {"NoMode", "NudgeClassMode", "RenameMode"} : ModeSet(m)
    \/ /\ Deliverable("handle__interact__result__a")
       /\ \E v \in ResultInputs : Result(v)
    \/ \E t \in Coroutines :
          \/ /\ Deliverable("handle__click__a")
             /\ \E p \in EmptyClick : Click(t, p[1], p[2], None)
          \/ /\ Deliverable("handle__interact__mode__a")
             /\ ModeCommand(t, Subcommand(envelope.cmd), <<>>)
          \/ HandleNoMode(t)
          \/ HandleNudgeClick(t)
          \/ HandleCancel(t)
          \/ Broadcast(t)

SpecDispatch == Init /\ [][DispatchNext]_vars

\* the callers are coroutines of one event loop: they insert page ranges,
\* queue and flush updates
SchedulerNext ==
    \E t \in Tasks :
        \/ Running /\ \E r \in PageRangeInputs : CallAddPageRange(t, r)
        \/ Running /\ PageRangeLock(t)
        \/ Running /\ PageRangeBlock(t)
        \/ Running /\ PageRangeRelease(t)
        \/ Running /\ \E e \in ElementInputs : CallQueueUpdate(t, e)
        \/ Running /\ \E e \in ElementInputs : QueueUpdateBlock(t, e)
        \/ Running /\ CallUpdate(t)
        \/ Running /\ UpdateLock(t)
        \/ Running /\ UpdateBlock(t)
        \/ Running /\ UpdateClear(t)
        \/ Running /\ Broadcast(t)

SpecScheduler == Init /\ [][SchedulerNext]_vars

\* the event loop runs a coroutine that can run
SpecSchedulerFair == SpecScheduler /\ WF_vars(SchedulerNext)

\* the callers insert page ranges, queue and flush updates, and a broadcast
\* inside a lock may raise
FaultNext ==
    \E t \in Tasks :
        \/ \E r \in PageRangeInputs : CallAddPageRange(t, r)
        \/ PageRangeLock(t)
        \/ PageRangeRelease(t)
        \/ \E e \in ElementInputs : CallQueueUpdate(t, e)
        \/ CallUpdate(t)
        \/ UpdateLock(t)
        \/ UpdateClear(t)
        \/ Broadcast(t)
        \/ BroadcastRaises(t)

SpecFault == Init /\ [][FaultNext]_vars

\* ============================================================ the claims
InitialPageList == <<<<2, INFINITY>>, <<INFINITY, INFINITY>>>>

IsIdleAfter(t, op) == task[t].pc = "idle" /\ task[t].op = op

\* the commands of the messages a call has sent, in order
SentCmds(t) == [i \in 1..Len(task[t].sent) |-> out[task[t].sent[i]].cmd]

\* C1: after any sequence of add_page_range calls the page list is sorted
\* ascending by the lower bound of its entries.
C1_PageListSorted ==
    \A i \in 1..(Len(page_list) - 1) : page_list[i][1] <= page_list[i + 1][1]

\* a range was inserted in front of the initial entries and another between them
C1_Witness ==
    /\ Len(page_list) >= 4
    /\ page_list[1][1] < 2
    /\ \E i \in 2..(Len(page_list) - 1) :
          page_list[i][1] > 2 /\ page_list[i][1] < INFINITY

PageRangeBroadcasts(r) ==
    Cardinality({k \in 1..Len(out) :
        out[k].cmd = "chart.insert_page_range" /\ out[k].page_range = r})

PageRangePending(r) ==
    \E t \in Tasks : task[t].pc = "broadcast"
                     /\ task[t].msg.cmd = "chart.insert_page_range"
                     /\ task[t].msg.page_range = r

AllPageRanges == PageRangeInputs \cup {<<p, p>> : p \in PageInputs}

\* C2: add_page_range with a range already in the list changes nothing and
\* broadcasts nothing; the list never holds a pair twice and every inserted
\* range is broadcast exactly once, also when two callers race.
C2_PageRangeOnce ==
    /\ \A i, j \in 1..Len(page_list) : page_list[i] = page_list[j] => i = j
    /\ \A r \in AllPageRanges :
          PageRangeBroadcasts(r) =
             IF InSeq(page_list, r) /\ ~InSeq(InitialPageList, r) /\ ~PageRangePending(r)
             THEN 1 ELSE 0
    /\ \A t \in Tasks : IsIdleAfter(t, "add_page_range") =>
          Len(task[t].sent) = IF task[t].inserted THEN 1 ELSE 0
    /\ Len(page_list) = Len(InitialPageList)
          + Cardinality({r \in AllPageRanges :
                            InSeq(page_list, r) /\ ~InSeq(InitialPageList, r)})

\* two callers raced to insert one range: the second found it under the lock
C2_Witness ==
    \E t, u \in Tasks :
        /\ t # u
        /\ IsIdleAfter(t, "add_page_range") /\ task[t].rechecked
        /\ IsIdleAfter(u, "add_page_range") /\ task[u].inserted
        /\ task[t].page_range = task[u].page_range
        /\ PageRangeBroadcasts(task[t].page_range) = 1

Flushing == {t \in Tasks : task[t].pc = "upd_clear"}

\* C3: a flush broadcasts one batch holding exactly the elements queued
\* since the last batch, and the dirty set is empty when it ends; no queued
\* element is in two batches and none is lost.
C3_FlushInvariant ==
    /\ Flushing = {} => updated_elements = DOMAIN unflushed
    /\ \A t \in Flushing :
          DOMAIN unflushed = {} /\ updated_elements = task[t].snapshot
    /\ \A t \in Tasks :
          task[t].pc = "broadcast" /\ task[t].msg.cmd = "chart.class.update" =>
             task[t].msg.to_update = DOMAIN unflushed
    /\ \A t \in Tasks : IsIdleAfter(t, "update") =>
          /\ Len(task[t].sent) = 1
          /\ out[task[t].sent[1]] = MsgClassUpdate(task[t].snapshot)
          /\ Cardinality(task[t].snapshot) <= task[t].n_queued

C3_FlushEmpties ==
    \A t \in Tasks :
        task[t].pc = "upd_clear" /\ task'[t].pc # "upd_clear" => updated_elements' = {}

C3_Flush == []C3_FlushInvariant /\ [][C3_FlushEmpties]_vars

\* a flush ended after two queue_update calls on one element
C3_Witness ==
    \E t \in Tasks :
        /\ IsIdleAfter(t, "update")
        /\ task[t].n_queued = 2
        /\ Cardinality(task[t].snapshot) = 1
        /\ updated_elements = {}

MutationOps ==
    {"add_node", "add_page_range", "add_class", "add_structline", "add_extension",
     "add_differential", "update"} \cup RangeNames

\* C4 as stated: every mutation operation emits exactly one broadcast per call.
C4_OneBroadcastPerCall ==
    \A t \in Tasks :
        task[t].pc = "idle" /\ task[t].op \in MutationOps => Len(task[t].sent) = 1

OpCmd ==
    [add_node |-> "chart.node.add", add_class |-> "chart.class.add",
     add_structline |-> "chart.edge.add", add_extension |-> "chart.edge.add",
     update |-> "chart.class.update"] @@ RangeCmd

\* C4 as amended: add_node, add_class, add_structline, add_extension,
\* flush_updates and the range setters emit exactly one broadcast per call;
\* add_page_range emits one when it inserts the range and none when the
\* range is present; add_differential emits the page-range broadcast when it
\* inserted the range, then (with auto) one chart.class.update, then one
\* chart.edge.add.
C4_BroadcastsPerCall ==
    \A t \in Tasks : task[t].pc = "idle" =>
        /\ task[t].op \in DOMAIN OpCmd => SentCmds(t) = <<OpCmd[task[t].op]>>
        /\ task[t].op = "add_page_range" =>
              SentCmds(t) = IF task[t].inserted
                            THEN <<"chart.insert_page_range">> ELSE <<>>
        /\ task[t].op = "add_differential" =>
              SentCmds(t) =
                 (IF task[t].inserted THEN <<"chart.insert_page_range">> ELSE <<>>)
                 \o (IF task[t].auto THEN <<"chart.class.update">> ELSE <<>>)
                 \o <<"chart.edge.add">>

\* an add_differential call that emitted three broadcasts has returned
C4_Witness ==
    \E t \in Tasks : IsIdleAfter(t, "add_differential") /\ Len(task[t].sent) = 3

\* C5: in add_differential with auto, when the edge is appended the range
\* [page, page] is in the page list, the call's insert_page_range broadcast
\* (if it inserted the range) and its chart.class.update have been emitted,
\* and the chart.edge.add broadcast comes after both.
C5_DifferentialOrder ==
    \A t \in Tasks :
        task[t].op = "add_differential" /\ task[t].auto /\ task[t].edge # 0 =>
            /\ InSeq(page_list, <<task[t].page, task[t].page>>)
            /\ LET n == IF task[t].inserted THEN 2 ELSE 1
               IN /\ Len(task[t].sent) >= n
                  /\ SubSeq(SentCmds(t), 1, n) =
                        (IF task[t].inserted THEN <<"chart.insert_page_range">> ELSE <<>>)
                        \o <<"chart.class.update">>
                  /\ task[t].inserted =>
                        out[task[t].sent[1]].page_range = <<task[t].page, task[t].page>>
                  /\ \A i \in (n + 1)..Len(task[t].sent) :
                        /\ out[task[t].sent[i]].cmd = "chart.edge.add"
                        /\ task[t].sent[i] > task[t].sent[n]

\* a differential on a new page was added: range, flush and edge all broadcast
C5_Witness ==
    \E t \in Tasks :
        /\ IsIdleAfter(t, "add_differential")
        /\ task[t].auto /\ task[t].inserted
        /\ SentCmds(t) = <<"chart.insert_page_range", "chart.class.update", "chart.edge.add">>

EdgeMsgs == {out[k] : k \in {j \in 1..Len(out) : out[j].cmd = "chart.edge.add"}}
               \cup {task[t].msg : t \in {u \in Tasks : task[u].msg.cmd = "chart.edge.add"}}

\* C6: every edge's id is its index in the one edge list, every edge is in
\* the incident-edge lists of its source and its target, and every
\* chart.edge.add broadcast carries the ids of the edge's endpoint classes.
C6_Edges ==
    /\ \A i \in 1..Len(edges) :
          /\ edges[i].id = i - 1
          /\ InSeq(classes[edges[i].source].edges, i)
          /\ InSeq(classes[edges[i].target].edges, i)
    /\ \A m \in EdgeMsgs :
          /\ m.id + 1 \in 1..Len(edges)
          /\ m.source = classes[edges[m.id + 1].source].id
          /\ m.target = classes[edges[m.id + 1].target].id
          /\ m.type = edges[m.id + 1].type

\* add_class(0,0), add_class(1,2), add_structline(first, second)
C6_Witness ==
    /\ Len(classes) = 2 /\ Len(edges) = 1
    /\ <<classes[1].x, classes[1].y>> = <<0, 0>>
    /\ <<classes[2].x, classes[2].y>> = <<1, 2>>
    /\ edges[1].type = "structline"
    /\ Len(out) = 3
    /\ out[3].cmd = "chart.edge.add" /\ out[3].source = 0 /\ out[3].target = 1

BidegreeKeys == DOMAIN classes_by_bidegree

\* C7: the k-th class created has id k-1, its index in the class list; the
\* id never changes; the class is once in the list of its own bidegree and
\* in no other bidegree's list.
C7_ClassInvariant ==
    \A i \in 1..Len(classes) :
        /\ classes[i].id = i - 1
        /\ SeqCount(InBidegree(classes_by_bidegree, <<classes[i].x, classes[i].y>>), i) = 1
        /\ \A b \in BidegreeKeys \ {<<classes[i].x, classes[i].y>>} :
              ~InSeq(classes_by_bidegree[b], i)

C7_IdStable ==
    /\ Len(classes') >= Len(classes)
    /\ \A i \in 1..Len(classes) :
          /\ classes'[i].id = classes[i].id
          /\ <<classes'[i].x, classes'[i].y>> = <<classes[i].x, classes[i].y>>

C7_Classes == []C7_ClassInvariant /\ [][C7_IdStable]_vars

\* two classes in one bidegree, the second one with an incident edge
C7_Witness ==
    /\ Len(classes) = 2
    /\ <<classes[1].x, classes[1].y>> = <<classes[2].x, classes[2].y>>
    /\ classes[2].edges # <<>>

\* ---------------------------------------------------------------- C8
\* the step in which coroutine t runs the click handler of mode m
HandlerStep(t, m) == Handling(t, m) /\ task'[t].pc # "handler"

NothingChanges ==
    /\ UNCHANGED <<chartVars, out, agentVars>>
    /\ \A u \in Tasks : task'[u].msg = task[u].msg \/ task'[u].msg = NoMsg

ExtensionAccepted(dx, dy) == dx \in {0, 1, 3} /\ dy >= 2

Displacement(s, g) == <<classes[g].x - classes[s].x, classes[g].y - classes[s].y>>

ExtensionEdges == {i \in 1..Len(edges) : edges[i].type = "extension"}

C8_EdgesValid ==
    \A i \in ExtensionEdges :
        LET d == Displacement(edges[i].source, edges[i].target)
        IN ExtensionAccepted(d[1], d[2])

C8_Click ==
    \A t \in Coroutines :
        (HandlerStep(t, "AddExtensionMode") /\ task[t].c # None
            /\ extension_source # None) =>
            LET d == Displacement(extension_source, task[t].c)
            IN IF ExtensionAccepted(d[1], d[2])
               THEN /\ task'[t].pc = "broadcast"
                    /\ task'[t].msg.cmd = "interact.prompt"
                    /\ task'[t].source = extension_source
                    /\ task'[t].target = task[t].c
               ELSE /\ NothingChanges
                    /\ task'[t].pc = "idle"

\* C8: in AddExtension mode with a pending source s, every extension edge that
\* a click on t leads to has t.x - s.x in {0, 1, 3} and t.y - s.y >= 2; a click
\* with such a displacement issues the colour prompt for the edge s -> t, and a
\* click with any other displacement creates no edge, issues no prompt and
\* leaves the pending source and the whole chart as they were.
C8_ExtensionValidation == []C8_EdgesValid /\ [][C8_Click]_vars

\* an extension of displacement (3, 5) exists, created after its prompt was
\* answered, and the pending source is cleared
C8_Witness ==
    /\ \E i \in ExtensionEdges :
          Displacement(edges[i].source, edges[i].target) = <<3, 5>>
    /\ \E i \in 1..Len(out) : out[i].cmd = "interact.prompt"
    /\ extension_source = None
    /\ extension # Unset

\* ---------------------------------------------------------------- C9
DifferentialEdges == {i \in 1..Len(edges) : edges[i].type = "differential"}

C9_EdgesValid ==
    \A i \in DifferentialEdges :
        LET s == classes[edges[i].source]
            g == classes[edges[i].target]
        IN /\ s.x = g.x + 1
           /\ edges[i].page = <<g.y - s.y>>

C9_Click ==
    \A t \in Coroutines :
        (HandlerStep(t, "AddDifferentialMode") /\ task[t].c # None
            /\ differential_source # None) =>
            LET s == classes[differential_source]
                g == classes[task[t].c]
                d == edges'[Len(edges')]
            IN IF s.x = g.x + 1
               THEN /\ Len(edges') = Len(edges) + 1
                    /\ d.type = "differential"
                    /\ d.source = differential_source
                    /\ d.target = task[t].c
                    /\ d.page = <<g.y - s.y>>
                    /\ differential_source' = None
               ELSE /\ NothingChanges
                    /\ task'[t].pc = "idle"

\* C9: in AddDifferential mode with a pending source s, a click on t creates a
\* differential only if s.x = t.x + 1; it then goes from s to t on page
\* t.y - s.y and the pending source is cleared. If s.x # t.x + 1 then no edge
\* and no page range is added and the pending source and the whole chart stay
\* as they were.
C9_DifferentialValidation == []C9_EdgesValid /\ [][C9_Click]_vars

\* a differential of page 2 from (1, 0) to (0, 2) was made by two clicks, its
\* page range was inserted, and the pending source is cleared
C9_Witness ==
    /\ \E i \in DifferentialEdges :
          /\ Pos(classes[edges[i].source]) = <<1, 0>>
          /\ Pos(classes[edges[i].target]) = <<0, 2>>
          /\ edges[i].page = <<2>>
          /\ edges[i].color = "blue"
    /\ InSeq(page_list, <<2, 2>>)
    /\ differential_source = None
    /\ mode = "AddDifferentialMode"

\* ---------------------------------------------------------------- C10
Grid == -1..3

\* v is less than 0.3 away from the integer n
Near(v, n) == Abs(v - n * Scale) < Threshold

NearInteger(v) == \E n \in Grid : Near(v, n)

Nearest(v) == CHOOSE n \in Grid : Near(v, n)

C10_Click ==
    \A t \in Coroutines :
        HandlerStep(t, "AddClassMode") =>
            LET x == task[t].xy[1]
                y == task[t].xy[2]
                c == classes'[Len(classes')]
                e == edges'[Len(edges')]
            IN IF task[t].c = None /\ NearInteger(x) /\ NearInteger(y)
               THEN /\ Len(classes') = Len(classes) + 1
                    /\ Pos(c) = <<Nearest(x), Nearest(y)>>
                    /\ \A i \in 1..Len(classes) : Pos(classes'[i]) = Pos(classes[i])
                    /\ IF interact_source # None
                       THEN /\ Len(edges') = Len(edges) + 1
                            /\ \A i \in 1..Len(edges) : edges'[i] = edges[i]
                            /\ e.type = "structline"
                            /\ e.source = interact_source
                            /\ e.target = Len(classes')
                       ELSE edges' = edges
                    /\ interact_source' = Len(classes')
               ELSE /\ classes' = classes
                    /\ classes_by_bidegree' = classes_by_bidegree
                    /\ edges' = edges
                    /\ interact_source' = interact_source

\* C10: in AddClass mode a click on empty space at (x, y) creates a class at
\* (round(x), round(y)) iff both coordinates are less than 0.3 away from an
\* integer; if a source is pending, exactly one structline from it to the new
\* class is created as well, and the new class becomes the pending source. A
\* click outside the tolerance or on an existing class creates no class and no
\* edge and leaves the pending source as it was.
C10_AddClassClick == [][C10_Click]_vars

\* two clicks near (1, 2) and (0, 2) made two classes joined by one structline,
\* and the second class is the pending source
C10_Witness ==
    /\ Len(classes) = 2
    /\ Pos(classes[1]) = <<1, 2>>
    /\ Pos(classes[2]) = <<0, 2>>
    /\ Len(edges) = 1
    /\ edges[1].type = "structline"
    /\ edges[1].source = 1
    /\ edges[1].target = 2
    /\ interact_source = 2

\* ---------------------------------------------------------------- C11
C11_Click ==
    \A t \in Coroutines :
        HandlerStep(t, "AddEdgeMode") =>
            LET c == task[t].c
                e == edges'[Len(edges')]
            IN IF c = None
               THEN /\ NothingChanges
                    /\ task'[t].pc = "idle"
               ELSE IF interact_source = None
               THEN /\ interact_source' = c
                    /\ edges' = edges
                    /\ classes' = classes
               ELSE c # interact_source =>
                    /\ Len(edges') = Len(edges) + 1
                    /\ \A i \in 1..Len(edges) : edges'[i] = edges[i]
                    /\ e.type = "structline"
                    /\ e.source = interact_source
                    /\ e.target = c
                    /\ Len(classes') = Len(classes)
                    /\ interact_source' = None

\* C11: in AddEdge mode the first click on an existing class records it as the
\* pending source and creates no edge; the second click, on a different class,
\* creates exactly one structline from the pending source to the clicked class
\* and clears the pending source; a click on empty space changes neither the
\* pending source nor the chart.
C11_AddEdgeClick == [][C11_Click]_vars

\* two clicks in AddEdge mode on two classes joined them by one structline
\* from the first to the second, and no source is pending
C11_Witness ==
    /\ mode = "AddEdgeMode"
    /\ Len(edges) = 1
    /\ edges[1].type = "structline"
    /\ edges[1].source # edges[1].target
    /\ classes[edges[1].source].edges = <<1>>
    /\ interact_source = None
    /\ \E t \in Coroutines : task[t].op = "click" /\ task[t].mode = "AddEdgeMode"
                             /\ task[t].c = edges[1].target /\ task[t].pc = "idle"

\* ---------------------------------------------------------------- C12
\* the step in which coroutine t runs the handler of subcommand sub
CommandStep(t, sub) == Commanded(t, sub) /\ task'[t].pc # "command"

NoPendingSource ==
    /\ interact_source = None
    /\ differential_source = None
    /\ extension_source = None

C12_CancelStep ==
    \A t \in Coroutines :
        CommandStep(t, "cancel") =>
            /\ errors' = errors
            /\ NoPendingSource'
            /\ (NoPendingSource => UNCHANGED <<chartVars, interact_source,
                                               differential_source, extension_source>>)

\* C12: in every mode the cancel handler never raises, is idempotent (a cancel
\* that finds nothing pending changes nothing), and after it every pending
\* source reference of the agent (the interact, differential and extension
\* pending sources) is cleared, also when no operation was in flight.
C12_CancelClearsAll == [][C12_CancelStep]_vars

\* what the cancel handlers do: the handler of a mode clears the pending
\* source of that mode only, raises nothing, and leaves the chart alone
C12_CancelOwnStep ==
    \A t \in Coroutines :
        CommandStep(t, "cancel") =>
            LET m == task[t].mode
            IN /\ errors' = errors
               /\ UNCHANGED chartVars
               /\ interact_source' = IF m \in {"AddClassMode", "AddEdgeMode"}
                                     THEN None ELSE interact_source
               /\ differential_source' = IF m = "AddDifferentialMode"
                                         THEN None ELSE differential_source
               /\ extension_source' = IF m = "AddExtensionMode"
                                      THEN None ELSE extension_source

C12_CancelClearsOwn == [][C12_CancelOwnStep]_vars

\* a cancel dispatched in AddEdgeMode has returned while the source recorded
\* in AddDifferentialMode is still pending
C12_Witness ==
    /\ differential_source # None
    /\ \E t \in Coroutines : /\ task[t].op = "cancel"
                             /\ task[t].mode = "AddEdgeMode"
                             /\ task[t].pc = "idle"
                             /\ task[t].sent # <<>>

\* ---------------------------------------------------------------- C13
\* the coroutines whose interact.prompt request is out and unanswered
WaitingPrompts == {t \in Tasks : task[t].pc = "prompt_wait"}

PromptsSent == {i \in 1..Len(out) : out[i].cmd = "interact.prompt"}

\* C13: at most one prompt is outstanding per agent at any time: no second
\* interact.prompt request is emitted while an earlier prompt of the agent is
\* still waiting for its interact.result.
C13_OnePromptOutstanding == Cardinality(WaitingPrompts) <= 1

\* two clicks on a class in AddClassMode: two name prompts were emitted and
\* both wait, no interact.result having arrived yet
C13_Witness ==
    /\ Cardinality(WaitingPrompts) = 2
    /\ Cardinality(PromptsSent) = 2
    /\ \A t \in WaitingPrompts : task[t].mode = "AddClassMode" /\ task[t].prompt = "name"
    /\ response_event.result = "unset"

\* ---------------------------------------------------------------- C14
\* the coroutines whose latest prompt has returned
ReturnedPrompts == {t \in Tasks : task[t].answer # "none"}

\* the interact.results that arrived after the request at position i of `out`
ResultsAfter(i) ==
    {k \in 1..Len(response_event.log) : response_event.log[k].at >= i}

\* C14: a prompt returns the payload of the first interact.result that arrives
\* after the prompt's interact.prompt request was emitted: never a result that
\* arrived before the request, and one interact.result resolves at most one
\* prompt.
C14_PromptGetsNextResult ==
    /\ \A t \in ReturnedPrompts :
          /\ task[t].result_n \in ResultsAfter(task[t].asked)
          /\ \A k \in ResultsAfter(task[t].asked) : task[t].result_n <= k
          /\ task[t].answer = response_event.log[task[t].result_n].result
    /\ \A t, u \in ReturnedPrompts : t # u => task[t].result_n # task[u].result_n

\* a colour prompt returned with the interact.result that had arrived before
\* its request was emitted, without waiting for a new one
C14_Witness ==
    \E t \in ReturnedPrompts :
        /\ task[t].prompt = "extension"
        /\ task[t].result_n = 1
        /\ Len(response_event.log) = 1
        /\ response_event.log[1].at < task[t].asked
        /\ ExtensionEdges # {}

\* ---------------------------------------------------------------- C15
\* the error the step raises, if it raises one
Raised(error) ==
    /\ Len(errors') = Len(errors) + 1
    /\ errors'[Len(errors')].error = error

PendingState ==
    <<interact_source, differential_source, extension_source, nudge_class,
      extension, extension_prev_color_default>>

C15_ModeRegistered ==
    mode \in {"NoMode", "AddClassMode", "AddEdgeMode", "NameClassMode", "ColorMode",
              "AddExtensionMode", "AddDifferentialMode", "NudgeClassMode"}

C15_ModeSetStep ==
    /\ Raised(UnknownMode) =>
          /\ errors'[Len(errors')].arg \notin RegisteredModes
          /\ UNCHANGED <<mode, chartVars, out, task, PendingState>>
    /\ mode' # mode =>
          /\ errors' = errors
          /\ UNCHANGED <<chartVars, out, task, PendingState>>
    /\ \A i \in 1..Len(errors) : errors'[i] = errors[i]

\* C15: interact.mode.set with a registered name makes that mode the active
\* mode; with an unregistered name it fails with an unknown-mode error and
\* leaves the active mode unchanged; so the active mode is always one of the
\* registered modes, NoMode at first.
C15_ModeSet == []C15_ModeRegistered /\ [][C15_ModeSetStep]_vars

\* an unregistered name was refused after the mode had been set to a
\* registered one, which is still the active mode
C15_Witness ==
    /\ mode = "ColorMode"
    /\ Len(errors) = 1
    /\ errors[1].error = UnknownMode
    /\ errors[1].arg = "RenameMode"
    /\ errors[1].mode = "ColorMode"

\* ---------------------------------------------------------------- C16
\* the subcommands for which mode m has a handler
Handlers(m) ==
    {"cancel"}
    \cup (IF m = "AddExtensionMode" THEN {"extension.adjust_bend"} ELSE {})
    \cup (IF m = "NudgeClassMode" THEN {"nudge_class"} ELSE {})

C16_Errors ==
    \A i \in 1..Len(errors) :
        errors[i].error = InvalidModeCommand => errors[i].cmd \notin Handlers(errors[i].mode)

C16_Step ==
    /\ Raised(InvalidModeCommand) => UNCHANGED <<mode, chartVars, out, task, PendingState>>
    /\ \A t \in Coroutines :
          (task'[t].pc = "command" /\ task[t].pc # "command") =>
              /\ task'[t].mode = mode
              /\ task'[t].op \in Handlers(mode)
              /\ UNCHANGED <<mode, chartVars, out, errors, PendingState>>
    /\ \A t \in Coroutines :
          (task[t].pc = "command" /\ task'[t].pc # "command") =>
              task'[t].op = task[t].op /\ task[t].op \in Handlers(task[t].mode)

\* C16: an interact.mode.<subcommand> message is dispatched to the handler of
\* the active mode that is named after the subcommand; if the active mode has
\* no such handler the message fails with an invalid-command error and the
\* mode, the pending state and the chart stay as they were.
C16_ModeCommand == []C16_Errors /\ [][C16_Step]_vars

\* in NudgeClassMode a nudge_class message was dispatched and ran, and an
\* extension.adjust_bend message was refused
C16_Witness ==
    /\ mode = "NudgeClassMode"
    /\ \E t \in Coroutines : /\ task[t].op = "nudge_class"
                             /\ task[t].mode = "NudgeClassMode"
                             /\ task[t].pc = "idle"
    /\ \E i \in 1..Len(errors) : /\ errors[i].error = InvalidModeCommand
                                 /\ errors[i].cmd = "extension.adjust_bend"
                                 /\ errors[i].mode = "NudgeClassMode"

\* ---------------------------------------------------------------- C17
C17_Click ==
    \A t \in Coroutines :
        HandlerStep(t, "NameClassMode") =>
            IF task[t].c = None
            THEN NothingChanges /\ task'[t].pc = "idle"
            ELSE /\ errors' = errors
                 /\ task'[t].pc = "broadcast"
                 /\ task'[t].msg.cmd = "interact.prompt"
                 /\ UNCHANGED chartVars

C17_Named ==
    \A t \in ReturnedPrompts :
        (task[t].mode = "NameClassMode" /\ task[t].answer # NoResult) =>
            /\ classes[task[t].c].name = task[t].answer
            /\ task[t].pc # "idle" \/ InSeq(SentCmds(t), "chart.class.update")

\* C17: in Rename mode a click on an existing class emits exactly one
\* interact.prompt request for a new name, and when the result arrives with a
\* non-null value the class's name is set to it and an update is flushed; a
\* click on empty space does nothing.
C17_Rename == []C17_Named /\ [][C17_Click]_vars

\* the click on a class in NameClassMode ended in a TypeError: no prompt was
\* emitted and the class has the name it had
C17_Witness ==
    /\ \E i \in 1..Len(errors) : /\ errors[i].error = TypeError
                                 /\ errors[i].mode = "NameClassMode"
    /\ PromptsSent = {}
    /\ \E t \in Coroutines : /\ task[t].mode = "NameClassMode"
                             /\ task[t].c # None
                             /\ task[t].pc = "idle"
                             /\ classes[task[t].c].name = ""

\* ---------------------------------------------------------------- C18
\* the coroutines running prompt_for_colors_a for a clicked class
ColorClicks ==
    {t \in Coroutines : /\ task[t].op = "click"
                        /\ task[t].mode = "ColorMode"
                        /\ task[t].c # None
                        /\ task[t].pc # "handler"}

IsPrompt(i) == out[i].cmd = "interact.prompt"

IsUpdate(i) == out[i].cmd = "chart.class.update"

\* the positions in `out` of the prompts and of the flushes of coroutine t
Requests(t) == SelectSeq(task[t].sent, IsPrompt)

Flushes(t) == SelectSeq(task[t].sent, IsUpdate)

C18_Prompts ==
    \A t \in ColorClicks :
        LET c == task[t].c
            es == classes[c].edges
            rq == Requests(t)
            ps == task[t].prompts
        IN /\ Len(rq) <= 1 + Len(es)
           /\ \A j \in 1..Len(rq) :
                 out[rq[j]].about = IF j = 1 THEN <<"class", c>> ELSE <<"edge", es[j - 1]>>
           /\ Len(ps) <= Len(rq)
           /\ Len(rq) <= Len(ps) + 1
           /\ \A j \in 2..Len(rq) :
                 /\ ps[j - 1].asked = rq[j - 1]
                 /\ ps[j - 1].n >= 1
                 /\ response_event.log[ps[j - 1].n].at < rq[j]
           /\ Len(Flushes(t)) <= 1
           /\ Flushes(t) # <<>> =>
                 /\ Len(rq) = 1 + Len(es)
                 /\ Len(ps) = Len(rq)
                 /\ Flushes(t)[1] > rq[Len(rq)]
           /\ task[t].pc = "idle" => Len(Flushes(t)) = 1

C18_Answer ==
    \A t \in Coroutines :
        (task[t].pc = "prompt_woken" /\ task[t].prompt = "color"
            /\ task'[t].pc # "prompt_woken") =>
            LET c == task[t].c
                es == classes[c].edges
                k == task[t].k
                result == response_event.result
                old == IF k = 0 THEN classes[c].color ELSE edges[es[k]].color
                new == IF k = 0 THEN classes'[c].color ELSE edges'[es[k]].color
            IN /\ new = IF result = NoResult THEN old ELSE result
               /\ \A i \in 1..Len(edges) :
                     (k = 0 \/ i # es[k]) => edges'[i] = edges[i]
               /\ \A i \in 1..Len(classes) :
                     (k # 0 \/ i # c) => classes'[i] = classes[i]
               /\ IF k < Len(es)
                  THEN /\ task'[t].msg.cmd = "interact.prompt"
                       /\ task'[t].msg.about = <<"edge", es[k + 1]>>
                       /\ task'[t].msg.default =
                             IF edges'[es[k + 1]].color = "unset" THEN "black"
                             ELSE edges'[es[k + 1]].color
                  ELSE task'[t].msg = NoMsg

\* C18: in Recolor mode a click on a class with k incident edges issues 1 + k
\* prompts, one after another (each request emitted only after the previous
\* result was received): first for the class, then once per entry of the
\* incident list in its order, suggesting the edge's current colour or "black";
\* a null answer leaves the colour as it is, and exactly one update flush
\* follows the last prompt.
C18_Recolor == []C18_Prompts /\ [][C18_Answer]_vars

\* a click on a class with one edge has finished: the class prompt was
\* answered "red", the edge prompt null, and one flush followed
C18_Witness ==
    \E t \in ColorClicks :
        /\ task[t].pc = "idle"
        /\ Len(classes[task[t].c].edges) = 1
        /\ Len(Requests(t)) = 2
        /\ task[t].prompts[1].answer = "red"
        /\ task[t].prompts[2].answer = NoResult
        /\ task[t].prompts[2].n = 2
        /\ classes[task[t].c].color = "red"
        /\ edges[classes[task[t].c].edges[1]].color = "unset"
        /\ Len(Flushes(t)) = 1

\* ---------------------------------------------------------------- C19
C19_Step ==
    \A t \in Coroutines :
        /\ (HandlerStep(t, "NudgeClassMode") /\ task[t].c # None) =>
              nudge_class' = task[t].c /\ classes' = classes
        /\ CommandStep(t, "nudge_class") =>
              LET d == task[t].xy
              IN /\ errors' = errors
                 /\ \A c \in ClassRefs :
                       IF c = nudge_class
                       THEN /\ classes'[c].x_nudge = classes[c].x_nudge + d[1]
                            /\ classes'[c].y_nudge = classes[c].y_nudge + d[2]
                       ELSE classes'[c] = classes[c]

\* C19: in Nudge mode a click on a class makes it the nudge target and every
\* later nudge message (dx, dy) adds dx and dy to the offsets of that class,
\* which start at 0; a nudge message that finds no target set (before any
\* click, or after a cancel) changes no class and does not fail, and after
\* retargeting only the new target changes.
C19_Nudge == [][C19_Step]_vars

\* a nudge message handled in NudgeClassMode before any click failed on the
\* attribute _nudge_class, which nothing had assigned
C19_Witness ==
    /\ nudge_class = Unset
    /\ \E i \in 1..Len(errors) : /\ errors[i].error = AttributeError
                                 /\ errors[i].arg = "_nudge_class"
                                 /\ errors[i].mode = "NudgeClassMode"
    /\ \A c \in ClassRefs : classes[c].x_nudge = 0 /\ classes[c].y_nudge = 0

\* ---------------------------------------------------------------- C20
\* C20: switching the mode with interact.mode.set neither clears a pending
\* source nor lets the click handling of another mode use it: a click
\* handled in AddEdge mode on a class, while no source recorded in AddEdge
\* mode is pending, records the class as the pending source and creates no
\* edge, and a click handled in AddClass mode creates no edge from a source
\* recorded in another mode.
C20_SwitchKeepsPending == mode' # mode => UNCHANGED PendingState

C20_SwitchStep == [][C20_SwitchKeepsPending]_vars

C20_Click ==
    \A t \in Coroutines :
        /\ (HandlerStep(t, "AddEdgeMode") /\ task[t].c # None
                /\ source_mode # "AddEdgeMode") =>
              /\ edges' = edges
              /\ interact_source' = task[t].c
        /\ (HandlerStep(t, "AddClassMode")
                /\ source_mode \notin {"none", "AddClassMode"}) =>
              edges' = edges

C20_ModeSwitch == [][C20_SwitchKeepsPending /\ C20_Click]_vars

\* a class created by a click in AddClass mode was left pending, the mode was
\* switched to AddEdge, and the first click there on a class made a
\* structline from the AddClass source and left no source pending
C20_Witness ==
    /\ mode = "AddEdgeMode"
    /\ Len(edges) = 1
    /\ edges[1].type = "structline"
    /\ interact_source = None
    /\ source_mode = "none"
    /\ \E t, u \in Coroutines :
          /\ task[u].op = "click" /\ task[u].mode = "AddClassMode"
          /\ task[u].pc = "idle" /\ task[u].c = edges[1].source
          /\ task[u].source = None
          /\ task[t].op = "click" /\ task[t].mode = "AddEdgeMode"
          /\ task[t].pc = "idle" /\ task[t].c = edges[1].target
          /\ task[t].source = edges[1].source

\* ---------------------------------------------------------------- C21
\* the dispatch round of the Envelope has gone past every handler
RoundOver == envelope.next = Len(InboundHandlers) + 1

\* the handlers whose declared Command is a prefix of the Envelope's Command
MatchingHandlers ==
    {k \in 1..Len(InboundHandlers) :
        Matches(HandlerCommand(InboundHandlers[k]), envelope.cmd)}

HoldsSuspended(t) ==
    /\ task[t].pc = "broadcast"
    /\ updated_elements_lock = t \/ page_list_lock = t

\* C22: no deadlock on the cooperative scheduler: while a coroutine is
\* suspended inside the broadcast of update_a or add_page_range_a, holding
\* the lock, the scheduler can take a step, so that another coroutine's call
\* of add_element_to_update, update_a or add_page_range_a completes and the
\* suspended coroutine resumes.
C22_NoDeadlock ==
    \A t \in Tasks : HoldsSuspended(t) => ENABLED SchedulerNext

\* the same as a liveness property: every call returns
C22_EveryCallReturns ==
    \A t \in Tasks : (task[t].pc # "idle") ~> (task[t].pc = "idle")

\* a coroutine is suspended in the broadcast of update_a, holding the
\* dirty-set lock, and another coroutine of the loop is inside acquire() of
\* that lock in add_element_to_update: neither can go on
C22_Witness ==
    \E t, u \in Tasks :
        /\ HoldsSuspended(t)
        /\ task[t].op = "update"
        /\ updated_elements_lock = t
        /\ task[u].pc = "queue_acquire"
        /\ ~ENABLED SchedulerNext

\* ---------------------------------------------------------------- C23
\* a lock is held only by a caller inside its `with` block
C23_LocksReleased ==
    /\ \A t \in Tasks : page_list_lock = t => task[t].pc \in {"broadcast", "apr_release"}
    /\ \A t \in Tasks : updated_elements_lock = t => task[t].pc \in {"broadcast", "upd_clear"}

C23_PageListIntact ==
    /\ \A i \in 1..(Len(page_list) - 1) : page_list[i][1] <= page_list[i + 1][1]
    /\ \A i, j \in 1..Len(page_list) : page_list[i] = page_list[j] => i = j

\* every element queued and not yet broadcast is in the dirty set
C23_DirtySetIntact == DOMAIN unflushed \subseteq updated_elements

\* a call of add_page_range_a with r made now would insert and broadcast r
LaterCallBroadcasts(r) == EnterAddPageRange(NewCall("add_page_range"), r).pc = "apr_lock"

C23_RangesBroadcast ==
    \A i \in 1..Len(page_list) :
        LET r == page_list[i]
        IN ~InSeq(InitialPageList, r) =>
              \/ PageRangeBroadcasts(r) >= 1
              \/ PageRangePending(r)
              \/ LaterCallBroadcasts(r)

\* C23: a fault raised by the broadcast inside update_a or add_page_range_a
\* does not corrupt the guarded structures: the lock is released, the page
\* list is sorted and free of duplicates, the dirty set still holds every
\* element not yet broadcast, and every page range in the page list has had
\* its chart.insert_page_range broadcast delivered, has it pending, or gets
\* it from a later call.
C23_FaultKeepsStructures ==
    /\ C23_LocksReleased
    /\ C23_PageListIntact
    /\ C23_DirtySetIntact
    /\ C23_RangesBroadcast

\* the parts of C23 that hold of the code
C23_FaultKeepsLocksAndSets ==
    /\ C23_LocksReleased
    /\ C23_PageListIntact
    /\ C23_DirtySetIntact

\* the broadcast of an inserted range raised; the range stayed in the page
\* list, the lock is free, and a later call of add_page_range_a with the same
\* range returned without a broadcast
C23_Witness ==
    \E t, u \in Tasks :
        /\ t # u
        /\ task[t].pc = "idle" /\ task[t].op = "add_page_range"
        /\ task[t].after = "fault" /\ task[t].inserted
        /\ IsIdleAfter(u, "add_page_range") /\ task[u].after # "fault"
        /\ task[u].page_range = task[t].page_range
        /\ ~task[u].inserted /\ task[u].sent = <<>>
        /\ InSeq(page_list, task[t].page_range)
        /\ PageRangeBroadcasts(task[t].page_range) = 0
        /\ ~PageRangePending(task[t].page_range)
        /\ page_list_lock = NoTask
        /\ errors # <<>>

====
